---- MODULE Spec2Model ----
(***************************************************************************)
(* A model of conlang_fmt: the document tree builder (Document::add_block), *)
(* the table renderer's span accounting (Table::write), the block parser   *)
(* (Block::parse), the driver loop (main), the gloss renderer              *)
(* (Gloss::write), the text written for a reference, direct calls of       *)
(* Block::parameters, the block reader (Input::next_block) and the columns *)
(* Table::write gives the cells of a whole table.                          *)
(*                                                                         *)
(* Strings are sequences of one-character strings.  Block indices are the  *)
(* 0-based indices of the code; blocks[i + 1] is the block with index i.   *)
(***************************************************************************)
EXTENDS Integers, Sequences, FiniteSets, TLC

VARIABLES
    \* ---- Document (src/src/document.rs:36-56) ----
    blocks,         \* Vec<Block>
    sections,       \* root SectionList
    ids,            \* HashMap<String, usize>
    replacements,   \* Replacements (key -> Text)
    tables,         \* Vec<usize>
    glosses,        \* Vec<usize>
    table_number,   \* last table number
    gloss_number,   \* last gloss number
    noid_index,     \* first unused number for blocks without an id
    \* ---- observation of the last add_block call ----
    result,         \* what the last add_block returned
    last,           \* the block handed to the last add_block
    pre,            \* the document as it was before the last add_block
    explicit_seen,  \* TRUE once some block carried an explicit id
    \* ---- Table::write (src/src/blocks/table.rs:49-78) ----
    continuation_cells, \* Vec<usize>: rows still spanned, per physical column
    col,            \* the column cursor of the row being written
    written,        \* the rows written so far: per cell, its column and spans
    \* ---- parse::Block (src/src/parse.rs:12-17) and what parse() returned ----
    slice,          \* the characters of the block
    block_idx,      \* the cursor idx
    parsed,         \* the Result of parse(): its error and its value
    \* ---- main (src/src/main.rs:16-39) ----
    lines,          \* the lines of the input not read yet
    output,         \* what was printed so far, one entry per block or error
    main_pc,        \* where main is: not started, in its loop, returned
    \* ---- Gloss::write (src/src/blocks/gloss.rs:29-97) ----
    gloss_block,    \* the gloss being written
    gloss_out,      \* what was written so far
    gloss_i,        \* the loop variable i
    add_space,      \* the flag add_space
    gloss_pc,       \* where write is: not called, in its loop, returned
    \* ---- a direct call of Block::parameters (src/src/parse.rs:324-357) ----
    call_slice,     \* the characters of the block
    call_start,     \* the cursor idx before the call
    call_result,    \* the cursor idx after the call, the error and the list
    \* ---- Input (src/src/input.rs:14-60) ----
    in_text,        \* the characters of the input
    in_lines,       \* the lines not read yet
    in_line_number, \* the number enumerate() gives the next line
    in_returned,    \* the blocks next_block returned so far
    in_pc,          \* whether Input::new was called
    \* ---- Table::write on a whole table (src/src/blocks/table.rs:49-78) ----
    table_rows,     \* the rows of the table: the spans of their cells
    table_cols      \* per row, the column at which each cell was written

docVars == <<blocks, sections, ids, replacements, tables, glosses,
             table_number, gloss_number, noid_index,
             result, last, pre, explicit_seen>>

tableVars == <<continuation_cells, col, written>>

parseVars == <<slice, block_idx, parsed>>

mainVars == <<lines, output, main_pc>>

glossVars == <<gloss_block, gloss_out, gloss_i, add_space, gloss_pc>>

callVars == <<call_slice, call_start, call_result>>

inputVars == <<in_text, in_lines, in_line_number, in_returned, in_pc>>

renderVars == <<table_rows, table_cols>>

vars == <<docVars, tableVars, parseVars, mainVars, glossVars, callVars, inputVars, renderVars>>

\* ------------------------------------------------------------------------
\* Bounds
\* ------------------------------------------------------------------------
MaxLevel == 3
MaxCalls == 5
MaxDocCalls == 3
MaxDocLevel == 2
MaxRows == 3
MaxCells == 2
MaxRowSpan == 2
MaxColSpan == 2

\* ------------------------------------------------------------------------
\* Strings
\* ------------------------------------------------------------------------
NoneIdx == -1

Digits == <<"0", "1", "2", "3", "4", "5", "6", "7", "8", "9">>

\* Display of a usize in decimal.
RECURSIVE Dec(_)
Dec(n) == IF n < 10 THEN <<Digits[n + 1]>>
          ELSE Dec(n \div 10) \o <<Digits[(n % 10) + 1]>>

\* itertools' format("-"): the items separated by "-".
RECURSIVE JoinDash(_)
JoinDash(number) ==
    IF number = <<>> THEN <<>>
    ELSE IF Len(number) = 1 THEN Dec(number[1])
    ELSE Dec(number[1]) \o <<"-">> \o JoinDash(Tail(number))

\* format!("sec-{}", heading.number().iter().format("-"))
SecId(number) == <<"s", "e", "c", "-">> \o JoinDash(number)

\* format!("__no-id-{}", self.noid_index)
NoId(n) == <<"_", "_", "n", "o", "-", "i", "d", "-">> \o Dec(n)

\* ------------------------------------------------------------------------
\* SectionList and heading-like blocks
\* ------------------------------------------------------------------------
SectionListNew(level) ==
    [headings |-> <<>>, last_child_number |-> 0, level |-> level]

SectionListDefault == SectionListNew(1)

PushAlwaysCounts(sl, index, numbered) ==
    [sl EXCEPT !.headings = Append(@, index),
               !.last_child_number = @ + 1]

\* SectionList::push
SectionListPush(sl, index, numbered) ==
    [sl EXCEPT !.headings = Append(@, index),
               !.last_child_number = IF numbered THEN @ + 1 ELSE @]

NoRepl == <<>>

\* A block as the parser hands it over: the fields of every kind in one record.
MkBlock(kind, id, level, numbered, toc, repl) ==
    [kind |-> kind, id |-> id, level |-> level,
     numbered |-> numbered, toc |-> toc,
     children |-> SectionListNew(level + 1),
     number |-> <<>>, num |-> 0, repl |-> repl]

\* Heading::new(level), with the numbered / toc flags as the parameters left them
HeadingNew(level, numbered, toc, id) ==
    MkBlock("heading", id, level, numbered, toc, NoRepl)

\* the children of the filler are one level too deep
FillerHeadingDeeper(level) ==
    [kind |-> "filler", id |-> <<>>, level |-> 0,
     numbered |-> FALSE, toc |-> FALSE,
     children |-> SectionListNew(level + 1),
     number |-> <<>>, num |-> 0, repl |-> NoRepl]

\* FillerHeading::new(level): the level given is the level of its children
FillerHeadingNew(level) ==
    [kind |-> "filler", id |-> <<>>, level |-> 0,
     numbered |-> FALSE, toc |-> FALSE,
     children |-> SectionListNew(level),
     number |-> <<>>, num |-> 0, repl |-> NoRepl]

IsHeadingLike(b) == b.kind \in {"heading", "filler"}

\* HeadingLike::numbered
HNumbered(b) == IF b.kind = "heading" THEN b.numbered /\ b.toc ELSE FALSE

\* HeadingLike::level
HLevel(b) == IF b.kind = "filler" THEN b.children.level - 1 ELSE b.level

\* ------------------------------------------------------------------------
\* Document accessors
\* ------------------------------------------------------------------------
\* get_heading panics if the block does not exist or is not a heading
HeadingOk(bs, curr) ==
    curr = NoneIdx \/ (curr + 1 \in 1..Len(bs) /\ IsHeadingLike(bs[curr + 1]))

\* Document::get_section_list
GetSectionList(bs, secs, curr) ==
    IF curr = NoneIdx THEN secs ELSE bs[curr + 1].children

\* Document::get_mut_section_list followed by a store: <<blocks, sections>>
SetSectionList(bs, secs, curr, sl) ==
    IF curr = NoneIdx THEN <<bs, sl>>
    ELSE <<[bs EXCEPT ![curr + 1].children = sl], secs>>

FillerAlways(sl) == TRUE

\* the descent step inserts a filler section iff the current list is empty
NeedsFiller(sl) == sl.headings = <<>>

\* Outcome of the descent: the document's blocks and root list, the parent
\* whose list receives the heading, the heading's index and number so far.
DescendResult(bs, secs, curr, idx, number, panic) ==
    [blocks |-> bs, sections |-> secs, curr |-> curr, idx |-> idx,
     number |-> number, panic |-> panic]

\* document.rs:67-71: push a filler block and record it in the current list
PushFiller(bs, secs, curr, idx, sl) ==
    SetSectionList(Append(bs, FillerHeadingNew(sl.level + 1)), secs, curr,
                   SectionListPush(sl, idx, FALSE))

\* The descent loop of add_block (document.rs:64-78).  h is the heading being
\* added; number is h.number so far.
RECURSIVE Descend(_, _, _, _, _, _)
\* document.rs:73-77: take the current list's counter, move to its last child
DescendStep(bs, secs, sl, idx, number, h) ==
    Descend(bs, secs,
            IF sl.headings = <<>> THEN NoneIdx ELSE sl.headings[Len(sl.headings)],
            idx,
            IF HNumbered(h) THEN Append(number, sl.last_child_number) ELSE number,
            h)

DescendNext(st, curr, idx, number, h) ==
    DescendStep(st[1], st[2], GetSectionList(st[1], st[2], curr), idx, number, h)

\* the index is not moved behind a filler
DescendAtSameIdx(bs, secs, curr, idx, number, h, sl) ==
    IF ~(sl.level < HLevel(h))
    THEN DescendResult(bs, secs, curr, idx, number, FALSE)
    ELSE IF NeedsFiller(sl)
    THEN DescendNext(PushFiller(bs, secs, curr, idx, sl), curr, idx, number, h)
    ELSE DescendNext(<<bs, secs>>, curr, idx, number, h)

\* document.rs:65-72: the loop condition and the filler pushed into an empty list
DescendAt(bs, secs, curr, idx, number, h, sl) ==
    IF ~(sl.level < HLevel(h))
    THEN DescendResult(bs, secs, curr, idx, number, FALSE)
    ELSE IF NeedsFiller(sl)
    THEN DescendNext(PushFiller(bs, secs, curr, idx, sl), curr, idx + 1, number, h)
    ELSE DescendNext(<<bs, secs>>, curr, idx, number, h)

Descend(bs, secs, curr, idx, number, h) ==
    IF ~HeadingOk(bs, curr)
    THEN DescendResult(bs, secs, curr, idx, number, TRUE)
    ELSE DescendAt(bs, secs, curr, idx, number, h, GetSectionList(bs, secs, curr))

\* ------------------------------------------------------------------------
\* Document::add_block
\* ------------------------------------------------------------------------
Doc == [blocks |-> blocks, sections |-> sections, ids |-> ids,
        replacements |-> replacements, tables |-> tables, glosses |-> glosses,
        table_number |-> table_number, gloss_number |-> gloss_number,
        noid_index |-> noid_index]

DocDefault ==
    [blocks |-> <<>>, sections |-> SectionListDefault, ids |-> <<>>,
     replacements |-> <<>>, tables |-> <<>>, glosses |-> <<>>,
     table_number |-> 0, gloss_number |-> 0, noid_index |-> 0]

Ok == [kind |-> "Ok", id |-> <<>>]
ErrId(id) == [kind |-> "Id", id |-> id]
Panic == [kind |-> "panic", id |-> <<>>]

\* f with key k set to v (HashMap::insert)
MapInsert(f, k, v) ==
    [x \in (DOMAIN f) \cup {k} |-> IF x = k THEN v ELSE f[x]]

KeepExisting(mine, other) ==
    [k \in (DOMAIN mine) \cup (DOMAIN other) |->
        IF k \in DOMAIN mine THEN mine[k] ELSE other[k]]

\* Replacements::update: every pair of other is inserted, replacing duplicates
ReplacementsUpdate(mine, other) ==
    [k \in (DOMAIN mine) \cup (DOMAIN other) |->
        IF k \in DOMAIN other THEN other[k] ELSE mine[k]]

\* the counter of a nonumber heading stays 0
InheritNothing(bs, secs, sl, h) == h

\* document.rs:80-88: a nonumber heading takes over its older sibling's
\* last_child_number, if there is such a sibling
InheritCounter(bs, secs, sl, h) ==
    IF ~HNumbered(h) /\ sl.headings # <<>>
    THEN [h EXCEPT !.children.last_child_number =
            GetSectionList(bs, secs, sl.headings[Len(sl.headings)]).last_child_number]
    ELSE h

\* document.rs:89-94: the last component of the number, and the sec- id
WithNumber(h, num) ==
    [h EXCEPT !.number = num,
              !.id = IF h.id = <<>> THEN SecId(num) ELSE h.id]

AssignNumber(sl, number, h) ==
    IF HNumbered(h)
    THEN WithNumber(h, Append(number, sl.last_child_number + 1))
    ELSE h

\* the state of one add_block call between its steps
Step(d, idx, b, panic) == [doc |-> d, idx |-> idx, block |-> b, panic |-> panic]

WithSections(d, st) == [d EXCEPT !.blocks = st[1], !.sections = st[2]]

\* document.rs:79-96: insertion into the direct parent, whose list is sl
InsertInto(d, b, r, sl) ==
    IF ~(HNumbered(b) \/ sl.headings = <<>>
         \/ HeadingOk(r.blocks, sl.headings[Len(sl.headings)]))
    THEN Step(d, r.idx, b, TRUE)
    ELSE Step(WithSections(d, SetSectionList(r.blocks, r.sections, r.curr,
                                SectionListPush(sl, r.idx, HNumbered(b)))),
              r.idx,
              AssignNumber(sl, r.number, InheritCounter(r.blocks, r.sections, sl, b)),
              FALSE)

AfterDescent(d, b, r) ==
    IF r.panic THEN Step(d, r.idx, b, TRUE)
    ELSE InsertInto(d, b, r, GetSectionList(r.blocks, r.sections, r.curr))

\* document.rs:62-97: the heading part of add_block
InsertHeading(s) ==
    IF IsHeadingLike(s.block)
    THEN AfterDescent(s.doc, s.block,
                      Descend(s.doc.blocks, s.doc.sections, NoneIdx,
                              Len(s.doc.blocks), s.block.number, s.block))
    ELSE s

\* document.rs:98-100
MergeReplacements(s) ==
    IF s.block.kind = "replace"
    THEN [s EXCEPT !.doc.replacements = ReplacementsUpdate(@, s.block.repl),
                   !.block.repl = NoRepl]
    ELSE s

\* every table counts, numbered or not
NumberTableAlways(s) ==
    IF s.block.kind = "table"
    THEN [s EXCEPT !.doc.table_number = @ + 1,
                   !.doc.tables = Append(@, s.idx),
                   !.block.num = IF s.block.numbered THEN s.doc.table_number + 1 ELSE @]
    ELSE s

\* document.rs:101-107
NumberTable(s) ==
    IF s.block.kind = "table"
    THEN [s EXCEPT !.doc.table_number = IF s.block.numbered THEN @ + 1 ELSE @,
                   !.doc.tables = Append(@, s.idx),
                   !.block.num = IF s.block.numbered THEN s.doc.table_number + 1 ELSE @]
    ELSE s

\* document.rs:108-114
NumberGloss(s) ==
    IF s.block.kind = "gloss"
    THEN [s EXCEPT !.doc.gloss_number = IF s.block.numbered THEN @ + 1 ELSE @,
                   !.doc.glosses = Append(@, s.idx),
                   !.block.num = IF s.block.numbered THEN s.doc.gloss_number + 1 ELSE @]
    ELSE s

\* document.rs:115-118
AssignNoId(s) ==
    IF s.block.id = <<>>
    THEN [s EXCEPT !.doc.noid_index = @ + 1,
                   !.block.id = NoId(s.doc.noid_index)]
    ELSE s

RegisterOverwrites(s) ==
    [doc |-> [s.doc EXCEPT !.ids = MapInsert(@, s.block.id, s.idx),
                           !.blocks = Append(@, s.block)],
     result |-> Ok]

\* document.rs:119-125
RegisterId(s) ==
    IF s.block.id \in DOMAIN s.doc.ids
    THEN [doc |-> s.doc, result |-> ErrId(s.block.id)]
    ELSE [doc |-> [s.doc EXCEPT !.ids = MapInsert(@, s.block.id, s.idx),
                                !.blocks = Append(@, s.block)],
          result |-> Ok]

\* document.rs:98-125: what follows the heading part
Finish(d, s) ==
    IF s.panic THEN [doc |-> d, result |-> Panic]
    ELSE RegisterId(AssignNoId(NumberGloss(NumberTable(MergeReplacements(s)))))

\* Document::add_block as a function of the document and the block
AddBlockFn(d, b) == Finish(d, InsertHeading(Step(d, Len(d.blocks), b, FALSE)))

\* the document and the return value after the call
Returned(r) ==
    /\ blocks' = r.doc.blocks
    /\ sections' = r.doc.sections
    /\ ids' = r.doc.ids
    /\ replacements' = r.doc.replacements
    /\ tables' = r.doc.tables
    /\ glosses' = r.doc.glosses
    /\ table_number' = r.doc.table_number
    /\ gloss_number' = r.doc.gloss_number
    /\ noid_index' = r.doc.noid_index
    /\ result' = r.result

\* One call of add_block.  A caller stops at the first error.
AddBlock(b) ==
    /\ result = Ok
    /\ Returned(AddBlockFn(Doc, b))
    /\ last' = b
    /\ pre' = Doc
    /\ explicit_seen' = (explicit_seen \/ b.id # <<>>)
    /\ UNCHANGED <<tableVars, parseVars, mainVars, glossVars, callVars, inputVars, renderVars>>

NoBlock == MkBlock("none", <<>>, 0, FALSE, FALSE, NoRepl)

InitDoc ==
    /\ blocks = <<>>
    /\ sections = SectionListDefault
    /\ ids = <<>>
    /\ replacements = <<>>
    /\ tables = <<>>
    /\ glosses = <<>>
    /\ table_number = 0
    /\ gloss_number = 0
    /\ noid_index = 0
    /\ result = Ok
    /\ last = NoBlock
    /\ pre = DocDefault
    /\ explicit_seen = FALSE

\* ------------------------------------------------------------------------
\* Table::write: the continuation accounting of the render loop
\* ------------------------------------------------------------------------
Max(a, b) == IF a > b THEN a ELSE b

\* usize::saturating_sub
SatSub(a, b) == IF a > b THEN a - b ELSE 0

\* table.rs:57-65: increment col until we get to a free column, decrementing
\* the counts passed over.  Yields <<continuation_cells, col>>.
RECURSIVE SkipContinued(_, _)
SkipContinued(cc, c) ==
    IF c + 1 \in 1..Len(cc) /\ cc[c + 1] > 0
    THEN SkipContinued([cc EXCEPT ![c + 1] = @ - 1], c + 1)
    ELSE <<cc, c>>

\* table.rs:68-70: Vec::resize(n, 0) if the vector is shorter than n
Resized(cc, n) ==
    IF Len(cc) < n THEN cc \o [k \in 1..(n - Len(cc)) |-> 0] ELSE cc

SpanKeepsAll(rows, n) == Max(rows, n)

\* table.rs:72: the count left in a column the cell occupies
SpanLeft(rows, n) == SatSub(Max(rows, n), 1)

\* table.rs:71-73
Occupy(cc, c, cell) ==
    [k \in 1..Len(cc) |->
        IF k - 1 >= c /\ k - 1 < c + cell.cols THEN SpanLeft(cell.rows, cc[k]) ELSE cc[k]]

\* the cell as written: cell.write is handed self.columns.get(col)
Written(cell, c) == [col |-> c, rows |-> cell.rows, cols |-> cell.cols]

NoCell == [col |-> -1, rows |-> 1, cols |-> 1]

\* a row that has been begun and has no cell yet
EmptyRow == [cells |-> 0, first |-> NoCell, others_span |-> FALSE]

\* the record of a row after one more cell x: the number of cells, the first
\* cell as written, and whether a later cell spans several rows
RowWith(row, x) ==
    IF row.cells = 0
    THEN [cells |-> 1, first |-> x, others_span |-> FALSE]
    ELSE [row EXCEPT !.cells = @ + 1, !.others_span = @ \/ x.rows >= 2]

AppendToLastRow(w, x) == [w EXCEPT ![Len(w)] = RowWith(@, x)]

\* table.rs:55-76: one iteration of `for cell in &row.cells`, from the state
\* sk = <<continuation_cells, col>> the skipping loop leaves
WriteCellAt(sk, cell) ==
    /\ continuation_cells' = Occupy(Resized(sk[1], sk[2] + cell.cols), sk[2], cell)
    /\ written' = AppendToLastRow(written, Written(cell, sk[2]))
    /\ col' = sk[2] + cell.cols

\* Cell.rows and Cell.cols are any usize the parameters gave (table.rs:260-272)
Cells == [rows : 0..MaxRowSpan, cols : 0..MaxColSpan]

WriteCell ==
    /\ written # <<>>
    /\ written[Len(written)].cells < MaxCells
    /\ \E cell \in Cells : WriteCellAt(SkipContinued(continuation_cells, col), cell)
    /\ UNCHANGED <<docVars, parseVars, mainVars, glossVars, callVars, inputVars, renderVars>>

\* table.rs:50-54: the next row starts at column 0
BeginRow ==
    /\ Len(written) < MaxRows
    /\ written' = Append(written, EmptyRow)
    /\ col' = 0
    /\ UNCHANGED continuation_cells
    /\ UNCHANGED <<docVars, parseVars, mainVars, glossVars, callVars, inputVars, renderVars>>

InitTable ==
    /\ continuation_cells = <<>>
    /\ col = 0
    /\ written = <<>>

NextTable == BeginRow \/ WriteCell


\* ------------------------------------------------------------------------
\* The block parser (src/src/parse.rs): the cursor and the lexical helpers.
\* A block is a sequence s of characters and a cursor idx (0-based); every
\* parsing operator yields a record [idx, err, val]: the cursor afterwards,
\* the error returned (NoErr if none) and the value produced.
\* ------------------------------------------------------------------------
NoChar == "EOF"

\* the grave accent, which a string of this language cannot hold
Backtick == "GRAVE"

\* self.slice.get(i).cloned(): NoChar stands for None
Get(s, i) == IF i >= 0 /\ i < Len(s) THEN s[i + 1] ELSE NoChar

\* char::is_whitespace, for the characters of the model's alphabet
IsWhitespace(c) == c \in {" ", "\n", "\t"}

\* Block::skip_whitespace_virtual
RECURSIVE SkipWhitespaceVirtual(_, _)
SkipWhitespaceVirtual(s, i) ==
    IF IsWhitespace(Get(s, i)) THEN SkipWhitespaceVirtual(s, i + 1) ELSE i

PR(idx, err, val) == [idx |-> idx, err |-> err, val |-> val]

NoErr == [chain |-> <<>>, arg |-> <<>>]

\* Block::end_of_block: EndOfBlock(kind) in the context Block(start)
EndOfBlockExpect(c) == [chain |-> <<"Block", "EndOfBlock", "Expect">>, arg |-> <<c>>]
EndOfBlockEscape == [chain |-> <<"Block", "EndOfBlock", "Escape">>, arg |-> <<>>]

\* ErrorKind::Expected(expected, got) in the context Block(start)
ExpectedErr(e, c) == [chain |-> <<"Block", "Expected">>, arg |-> <<e, c>>]

\* Block::parameter_error
ParameterErr(name) == [chain |-> <<"Block", "Parameter">>, arg |-> name]

\* ErrorKind::GlossLine in the context Block(start)
GlossLineErr == [chain |-> <<"Block", "GlossLine">>, arg |-> <<>>]

\* ErrorKind::Parse, the context put on a failed usize parse (no Block context)
ParseErr == [chain |-> <<"Parse">>, arg |-> <<>>]

Failed(r) == r.err # NoErr

\* Block::directive and Block::bracketed: collect characters up to the
\* closing character, a backslash taking the next character whatever it is.
\* next() advances the cursor also when it returns None.
\* the arm of the match taken for the character at the cursor
CollectArm(s, idx, close) ==
    IF Get(s, idx) = NoChar THEN "end"
    ELSE IF Get(s, idx) = close THEN "close"
    ELSE IF Get(s, idx) # "\\" THEN "push"
    ELSE IF Get(s, idx + 1) = NoChar THEN "escape at end"
    ELSE "escaped"

RECURSIVE CollectUntil(_, _, _, _)
CollectUntil(s, idx, close, acc) ==
    CASE CollectArm(s, idx, close) = "end" -> PR(idx + 1, EndOfBlockExpect(close), acc)
      [] CollectArm(s, idx, close) = "close" -> PR(idx + 1, NoErr, acc)
      [] CollectArm(s, idx, close) = "escape at end" -> PR(idx + 2, EndOfBlockEscape, acc)
      [] CollectArm(s, idx, close) = "escaped" ->
            CollectUntil(s, idx + 2, close, Append(acc, Get(s, idx + 1)))
      [] CollectArm(s, idx, close) = "push" ->
            CollectUntil(s, idx + 1, close, Append(acc, Get(s, idx)))

\* Block::directive, the first `:` already matched
Directive(s, idx) == CollectUntil(s, idx, ":", <<>>)

\* Block::bracketed, the `{` already matched: the buffer with the group added
Bracketed(s, idx, buffer) == CollectUntil(s, idx, "}", buffer)

\* param_builder.iter().filter(|w| w.len() > 0).join(" ")
RECURSIVE JoinWords(_)
JoinWords(words) ==
    IF words = <<>> THEN <<>>
    ELSE IF words[1] = <<>> THEN JoinWords(Tail(words))
    ELSE IF JoinWords(Tail(words)) = <<>> THEN words[1]
    ELSE words[1] \o <<" ">> \o JoinWords(Tail(words))

\* param_builder.last_mut().unwrap().push(c)
PushLast(words, c) == [words EXCEPT ![Len(words)] = Append(@, c)]

SetLast(words, w) == [words EXCEPT ![Len(words)] = w]

\* The scanning loop shared by Block::parameter (isName) and
\* Block::parameter_value: val is the list of words; ended is "]" (kept),
\* "," (popped), "=" (popped, name only) or "eof".
RECURSIVE ParamWords(_, _, _, _)
ParamWordsAfterGroup(s, r, words, isName) ==
    IF Failed(r) THEN [idx |-> r.idx, err |-> r.err, val |-> words, ended |-> "err"]
    ELSE ParamWords(s, r.idx, SetLast(words, r.val), isName)

\* the arm of the match taken for the character at the cursor, in the order
\* of the source
ParamArm(s, idx, isName) ==
    IF Get(s, idx) = NoChar THEN "eof"
    ELSE IF Get(s, idx) = "]" THEN "]"
    ELSE IF Get(s, idx) = "\\"
    THEN (IF Get(s, idx + 1) = NoChar THEN "escape at end" ELSE "escaped")
    ELSE IF Get(s, idx) = "{" THEN "group"
    ELSE IF Get(s, idx) = "," THEN ","
    ELSE IF isName /\ Get(s, idx) = "=" THEN "="
    ELSE IF IsWhitespace(Get(s, idx)) THEN "whitespace"
    ELSE "push"

ParamWords(s, idx, words, isName) ==
    CASE ParamArm(s, idx, isName) = "eof" ->
            [idx |-> idx, err |-> NoErr, val |-> words, ended |-> "eof"]
      [] ParamArm(s, idx, isName) = "]" ->
            [idx |-> idx, err |-> NoErr, val |-> words, ended |-> "]"]
      [] ParamArm(s, idx, isName) = "escape at end" ->
            [idx |-> idx + 2, err |-> EndOfBlockEscape, val |-> words, ended |-> "err"]
      [] ParamArm(s, idx, isName) = "escaped" ->
            ParamWords(s, idx + 2, PushLast(words, Get(s, idx + 1)), isName)
      [] ParamArm(s, idx, isName) = "group" ->
            ParamWordsAfterGroup(s, Bracketed(s, idx + 1, words[Len(words)]), words, isName)
      [] ParamArm(s, idx, isName) = "," ->
            [idx |-> idx + 1, err |-> NoErr, val |-> words, ended |-> ","]
      [] ParamArm(s, idx, isName) = "=" ->
            [idx |-> idx + 1, err |-> NoErr, val |-> words, ended |-> "="]
      [] ParamArm(s, idx, isName) = "whitespace" ->
            ParamWords(s, SkipWhitespaceVirtual(s, idx), Append(words, <<>>), isName)
      [] ParamArm(s, idx, isName) = "push" ->
            ParamWords(s, idx + 1, PushLast(words, Get(s, idx)), isName)

\* Block::parameter_value
ParameterValueOf(w) == PR(w.idx, w.err, JoinWords(w.val))

ParameterValue(s, idx) ==
    ParameterValueOf(ParamWords(s, SkipWhitespaceVirtual(s, idx), <<<<>>>>, FALSE))

\* Parameter(Option<String>, String); val = <<>> is the Option None
ParamSwapped(keyed, key, value) == [keyed |-> keyed, key |-> value, value |-> key]

Param(keyed, key, value) == [keyed |-> keyed, key |-> key, value |-> value]

\* Block::parameter, after the value (if any) was read: v is the result of
\* parameter_value
NamedParameter(name, v) ==
    IF Failed(v) THEN PR(v.idx, v.err, <<>>)
    ELSE IF name = <<>> THEN PR(v.idx, NoErr, <<>>)
    ELSE PR(v.idx, NoErr, <<Param(TRUE, name, v.val)>>)

ParameterOf(s, w) ==
    IF w.ended = "err" THEN PR(w.idx, w.err, <<>>)
    ELSE IF w.ended = "=" THEN NamedParameter(JoinWords(w.val), ParameterValue(s, w.idx))
    ELSE IF JoinWords(w.val) = <<>> THEN PR(w.idx, NoErr, <<>>)
    ELSE PR(w.idx, NoErr, <<Param(FALSE, <<>>, JoinWords(w.val))>>)

\* Block::parameter: val is <<>> (None) or <<parameter>>
Parameter(s, idx) ==
    ParameterOf(s, ParamWords(s, SkipWhitespaceVirtual(s, idx), <<<<>>>>, TRUE))

\* Block::parameters, the loop over the arguments after `[`
RECURSIVE ParameterList(_, _, _)
ParameterListNext(s, r, params) ==
    IF Failed(r) THEN PR(r.idx, r.err, params)
    ELSE ParameterList(s, r.idx, params \o r.val)

ParameterList(s, idx, params) ==
    IF Get(s, idx) = NoChar THEN PR(idx + 1, EndOfBlockExpect("]"), params)
    ELSE IF Get(s, idx) = "]" THEN PR(idx + 1, NoErr, params)
    ELSE ParameterListNext(s, Parameter(s, idx), params)

\* the cursor stays after the whitespace skipped
NoRewind(idx, skipped) == skipped

\* the cursor goes back one character too far
RewindBefore(idx, skipped) == idx - 1

\* parse.rs:352-355: no parameter list, the cursor goes back to where it was
RewindTo(idx, skipped) == idx

\* Block::parameters
Parameters(s, idx) ==
    IF Get(s, SkipWhitespaceVirtual(s, idx)) = "["
    THEN ParameterList(s, SkipWhitespaceVirtual(s, SkipWhitespaceVirtual(s, idx) + 1), <<>>)
    ELSE PR(RewindTo(idx, SkipWhitespaceVirtual(s, idx)), NoErr, <<>>)


\* ------------------------------------------------------------------------
\* Parameters applied to the objects they configure (UpdateParam, document.rs)
\* and the update_one! / update_multiple! macros of parse.rs.
\* ------------------------------------------------------------------------
K_class == <<"c", "l", "a", "s", "s">>
K_id == <<"i", "d">>
K_ref == <<"r", "e", "f">>
K_link == <<"l", "i", "n", "k">>
K_title == <<"t", "i", "t", "l", "e">>
K_rows == <<"r", "o", "w", "s">>
K_cols == <<"c", "o", "l", "s">>
K_max_level == <<"m", "a", "x", "_", "l", "e", "v", "e", "l">>
K_nonumber == <<"n", "o", "n", "u", "m", "b", "e", "r">>
K_notoc == <<"n", "o", "t", "o", "c">>
K_ordered == <<"o", "r", "d", "e", "r", "e", "d">>
K_header == <<"h", "e", "a", "d", "e", "r">>
K_nosplit == <<"n", "o", "s", "p", "l", "i", "t">>
K_conlang == <<"c", "o", "n", "l", "a", "n", "g">>
K_toc == <<"t", "o", "c">>
K_list == <<"l", "i", "s", "t">>
K_table == <<"t", "a", "b", "l", "e">>
K_gloss == <<"g", "l", "o", "s", "s">>
K_replace == <<"r", "e", "p", "l", "a", "c", "e">>
K_TableOfContents ==
    <<"T", "a", "b", "l", "e", " ", "o", "f", " ", "C", "o", "n", "t", "e", "n", "t", "s">>

\* Inline { kind, common }: s is the string of Text, Replace and Reference,
\* inner the text of the formatting kinds, url and title those of Link
Inline(kind, str, inner, class) ==
    [kind |-> kind, s |-> str, inner |-> inner, class |-> class,
     url |-> <<>>, title |-> <<>>]

\* From<String> for Inline
TextInline(str) == Inline("Text", str, <<>>, <<>>)

\* From<String> for Text
TextFrom(str) == <<TextInline(str)>>

\* Text::with_class
WithClass(text, class) == <<Inline("Span", <<>>, text, class)>>

\* str::parse::<usize>: an optional `+` and at least one decimal digit; -1
\* stands for Err (values stay far below 2^64 for the inputs considered)
DigitChars == {"0", "1", "2", "3", "4", "5", "6", "7", "8", "9"}

DigitVal(c) == CHOOSE d \in 0..9 : Digits[d + 1] = c

RECURSIVE ParseDigits(_, _)
ParseDigits(v, acc) ==
    IF v = <<>> THEN acc
    ELSE IF v[1] \notin DigitChars THEN -1
    ELSE ParseDigits(Tail(v), 10 * acc + DigitVal(v[1]))

ParseUsize(v) ==
    IF v = <<>> THEN -1
    ELSE IF v[1] = "+" THEN (IF Len(v) = 1 THEN -1 ELSE ParseDigits(Tail(v), 0))
    ELSE ParseDigits(v, 0)

\* the outcome of update_param chains: the object and the error raised
Upd(obj) == [obj |-> obj, err |-> NoErr]

UpdErr(obj, err) == [obj |-> obj, err |-> err]

Keyless(p) == ~p.keyed

Keyed(p, key) == p.keyed /\ p.key = key

\* the last object returned the parameter: parameter_error(param.0.unwrap())
Unhandled(obj, p) == UpdErr(obj, ParameterErr(p.key))

\* no keyless parameter is the class
KeylessNever(p) == FALSE

\* a keyless parameter is the class
KeylessIsClass(p) == Keyless(p)

\* UpdateParam for InlineCommon, for BlockCommon's class and for String
ClassParam(p) == Keyed(p, K_class) \/ KeylessIsClass(p)

\* UpdateParam for InlineCommon, last in its chain
UpdateInlineCommon(inl, p) ==
    IF ClassParam(p) THEN Upd([inl EXCEPT !.class = p.value])
    ELSE Unhandled(inl, p)

\* UpdateParam for InlineType, then InlineCommon
UpdateInline(inl, p) ==
    IF inl.kind = "Reference" /\ (Keyed(p, K_ref) \/ Keyless(p))
    THEN Upd([inl EXCEPT !.s = p.value])
    ELSE IF inl.kind = "Link" /\ (Keyed(p, K_link) \/ Keyless(p))
    THEN Upd([inl EXCEPT !.url = p.value])
    ELSE IF inl.kind = "Link" /\ Keyed(p, K_title)
    THEN Upd([inl EXCEPT !.title = TextFrom(p.value)])
    ELSE UpdateInlineCommon(inl, p)

\* UpdateParam for BlockCommon, last in its chain
UpdateBlockCommon(b, p) ==
    IF ClassParam(p) THEN Upd([b EXCEPT !.class = p.value])
    ELSE IF Keyed(p, K_id) THEN Upd([b EXCEPT !.id = p.value])
    ELSE Unhandled(b, p)

\* BlockType::update_param of Heading, then BlockCommon
UpdateHeading(b, p) ==
    IF Keyless(p) /\ p.value = K_nonumber THEN Upd([b EXCEPT !.numbered = FALSE])
    ELSE IF Keyless(p) /\ p.value = K_notoc THEN Upd([b EXCEPT !.toc = FALSE])
    ELSE UpdateBlockCommon(b, p)

\* BlockType::update_param of Contents, then BlockCommon
UpdateContents(b, p) ==
    IF Keyed(p, K_max_level)
    THEN IF ParseUsize(p.value) < 0 THEN UpdErr(b, ParseErr)
         ELSE Upd([b EXCEPT !.max_level = ParseUsize(p.value)])
    ELSE UpdateBlockCommon(b, p)

\* BlockType::update_param of List, then BlockCommon
UpdateList(b, p) ==
    IF Keyless(p) /\ p.value = K_ordered THEN Upd([b EXCEPT !.ordered = TRUE])
    ELSE UpdateBlockCommon(b, p)

\* BlockType::update_param of Table and of Gloss, then BlockCommon
UpdateNumbered(b, p) ==
    IF Keyless(p) /\ p.value = K_nonumber THEN Upd([b EXCEPT !.numbered = FALSE])
    ELSE UpdateBlockCommon(b, p)

\* UpdateParam for Row and for Column, alone in their chains
UpdateRowOrColumn(x, p) ==
    IF Keyed(p, K_class) THEN Upd([x EXCEPT !.class = p.value])
    ELSE IF Keyless(p) /\ p.value = K_header THEN Upd([x EXCEPT !.header = TRUE])
    ELSE IF Keyless(p) THEN Upd([x EXCEPT !.class = p.value])
    ELSE Unhandled(x, p)

\* UpdateParam for Cell, alone in its chain
UpdateCell(cell, p) ==
    IF ClassParam(p) THEN Upd([cell EXCEPT !.class = p.value])
    ELSE IF Keyed(p, K_rows)
    THEN IF ParseUsize(p.value) < 0 THEN UpdErr(cell, ParseErr)
         ELSE Upd([cell EXCEPT !.rows = ParseUsize(p.value)])
    ELSE IF Keyed(p, K_cols)
    THEN IF ParseUsize(p.value) < 0 THEN UpdErr(cell, ParseErr)
         ELSE Upd([cell EXCEPT !.cols = ParseUsize(p.value)])
    ELSE Unhandled(cell, p)

\* GlossLineType::update_param, then UpdateParam for String (the class)
UpdateGlossLine(x, p) ==
    IF Keyless(p) /\ p.value = K_nosplit THEN Upd([x EXCEPT !.split = FALSE])
    ELSE IF ClassParam(p) THEN Upd([x EXCEPT !.class = p.value])
    ELSE Unhandled(x, p)

\* update_one!: the chain of objects a parameter goes through, by target
UpdateOne(target, obj, p) ==
    CASE target = "Inline" -> UpdateInline(obj, p)
      [] target = "InlineCommon" -> UpdateInlineCommon(obj, p)
      [] target = "Heading" -> UpdateHeading(obj, p)
      [] target = "Contents" -> UpdateContents(obj, p)
      [] target = "List" -> UpdateList(obj, p)
      [] target = "Table" -> UpdateNumbered(obj, p)
      [] target = "Gloss" -> UpdateNumbered(obj, p)
      [] target = "Row" -> UpdateRowOrColumn(obj, p)
      [] target = "Column" -> UpdateRowOrColumn(obj, p)
      [] target = "Cell" -> UpdateCell(obj, p)
      [] target = "GlossLine" -> UpdateGlossLine(obj, p)

\* the loop of update_multiple! over the parameters read
RECURSIVE UpdateEach(_, _, _)
UpdateEachNext(target, u, params) ==
    IF u.err # NoErr THEN u ELSE UpdateEach(target, u.obj, params)

UpdateEach(target, obj, params) ==
    IF params = <<>> THEN Upd(obj)
    ELSE UpdateEachNext(target, UpdateOne(target, obj, params[1]), Tail(params))

UpdateWith(target, obj, r) ==
    IF Failed(r) THEN PR(r.idx, r.err, obj)
    ELSE PR(r.idx, UpdateEach(target, obj, r.val).err, UpdateEach(target, obj, r.val).obj)

\* update_multiple!(self, obj, ..): read the parameter list at the cursor
\* and apply it
UpdateMultiple(s, idx, target, obj) == UpdateWith(target, obj, Parameters(s, idx))

\* ------------------------------------------------------------------------
\* Inline text (Block::text_until and the inline elements it builds)
\* ------------------------------------------------------------------------
\* Block::match_hard_line, the cursor idx being just after c
MatchHardLine(s, idx, c) ==
    /\ c = "\n"
    /\ \/ /\ Get(s, SkipWhitespaceVirtual(s, idx)) = ":"
          /\ Get(s, SkipWhitespaceVirtual(s, idx) + 1) = ":"
       \/ Get(s, SkipWhitespaceVirtual(s, idx)) = NoChar

\* the predicates handed to text_until
Never == <<"never">>
UntilChar(c) == <<"char", c>>
UntilHardLine == <<"hard">>
UntilCellEnd == <<"cell">>
UntilWhitespace == <<"ws">>

Predicate(pred, s, idx, c) ==
    CASE pred[1] = "never" -> FALSE
      [] pred[1] = "char" -> c = pred[2]
      [] pred[1] = "hard" -> MatchHardLine(s, idx, c)
      [] pred[1] = "cell" -> c = "|" \/ MatchHardLine(s, idx, c)
      [] pred[1] = "ws" -> IsWhitespace(c)

RECURSIVE TextUntil(_, _, _, _, _)

\* the arm of the match of text_until taken for the character at the
\* cursor, in the order of the source: the predicate comes first
TextArm(s, idx, pred) ==
    IF Get(s, idx) = NoChar THEN "end"
    ELSE IF Predicate(pred, s, idx + 1, Get(s, idx)) THEN "stop"
    ELSE IF Get(s, idx) \in {"{", ":", "*", "_", "^", Backtick} THEN Get(s, idx)
    ELSE IF Get(s, idx) = "\\"
    THEN (IF Get(s, idx + 1) = NoChar THEN "escape at end" ELSE "escaped")
    ELSE IF IsWhitespace(Get(s, idx)) THEN "whitespace"
    ELSE "push"

\* the characters from the cursor on that take the last arm, `buffer.push(c)`,
\* one turn of the loop after the other: how many there are (at least one
\* when the character at the cursor does)
PlainRun(s, idx, pred) ==
    CHOOSE k \in 1..(Len(s) - idx + 1) :
        /\ \A j \in 0..(k - 1) : TextArm(s, idx + j, pred) = "push"
        /\ TextArm(s, idx + k, pred) # "push"

\* push_and_renew! and the final push of the buffer
Flush(text, buffer) == IF buffer # <<>> THEN Append(text, TextInline(buffer)) ELSE text

\* Block::simple_inline
SimpleInline(s, idx, inl) == UpdateMultiple(s, idx, "Inline", inl)

\* Block::expect_exact
ExpectExact(s, idx, expected) ==
    IF Get(s, idx) = NoChar THEN PR(idx + 1, EndOfBlockExpect(expected), <<>>)
    ELSE IF Get(s, idx) = expected THEN PR(idx + 1, NoErr, <<>>)
    ELSE PR(idx + 1, ExpectedErr(expected, Get(s, idx)), <<>>)

\* the inline built from an inner text t read by text_until_char
InlineAround(s, t, kind) ==
    IF Failed(t) THEN t ELSE SimpleInline(s, t.idx, Inline(kind, <<>>, t.val, <<>>))

\* the double form: the inner text, then expect_exact(delim)
DoubleClosed(s, t, e, kind) ==
    IF Failed(e) THEN e ELSE SimpleInline(s, e.idx, Inline(kind, <<>>, t.val, <<>>))

DoubleAround(s, t, delim, kind) ==
    IF Failed(t) THEN t ELSE DoubleClosed(s, t, ExpectExact(s, t.idx, delim), kind)

\* Block::formatting_inline, the opening character already matched
FormattingInline(s, idx, delim, single, double) ==
    IF Get(s, idx) = NoChar THEN PR(idx + 1, EndOfBlockExpect(delim), <<>>)
    ELSE IF Get(s, idx) = delim
    THEN DoubleAround(s, TextUntil(s, idx + 1, <<>>, <<>>, UntilChar(delim)), delim, double)
    ELSE InlineAround(s, TextUntil(s, idx, <<>>, <<>>, UntilChar(delim)), single)

\* the generic span: class "conlang" unless a parameter changes it
SpanAround(s, t) ==
    IF Failed(t) THEN t
    ELSE UpdateMultiple(s, t.idx, "InlineCommon", Inline("Span", <<>>, t.val, K_conlang))

\* the inline element of a directive found in running text
DirectiveInline(s, d) ==
    IF Failed(d) THEN d
    ELSE IF d.val = K_ref THEN SimpleInline(s, d.idx, Inline("Reference", <<>>, <<>>, <<>>))
    ELSE IF d.val = K_link THEN SimpleInline(s, d.idx, Inline("Link", <<>>, <<>>, <<>>))
    ELSE SimpleInline(s, d.idx, Inline("Replace", d.val, <<>>, <<>>))

\* text_until goes on after an inline element was built (r) ...
AfterInline(s, r, text, pred) ==
    IF Failed(r) THEN PR(r.idx, r.err, text)
    ELSE TextUntil(s, r.idx, Append(text, r.val), <<>>, pred)

\* ... and after a {}-group was added to the same text
AfterGroup(s, r, pred) ==
    IF Failed(r) THEN r ELSE TextUntil(s, r.idx, r.val, <<>>, pred)

\* Block::text_until: the text so far, the buffer of plain characters and
\* the stop predicate; the stop character is consumed
TextUntil(s, idx, text, buffer, pred) ==
    CASE TextArm(s, idx, pred) = "end" -> PR(idx + 1, NoErr, Flush(text, buffer))
      [] TextArm(s, idx, pred) = "stop" -> PR(idx + 1, NoErr, Flush(text, buffer))
      [] TextArm(s, idx, pred) = "{" ->
            AfterGroup(s, TextUntil(s, idx + 1, Flush(text, buffer), <<>>, UntilChar("}")),
                       pred)
      [] TextArm(s, idx, pred) = ":" ->
            AfterInline(s, DirectiveInline(s, Directive(s, idx + 1)),
                        Flush(text, buffer), pred)
      [] TextArm(s, idx, pred) = "*" ->
            AfterInline(s, FormattingInline(s, idx + 1, "*", "Emphasis", "Strong"),
                        Flush(text, buffer), pred)
      [] TextArm(s, idx, pred) = "_" ->
            AfterInline(s, FormattingInline(s, idx + 1, "*", "Italics", "Bold"),
                        Flush(text, buffer), pred)
      [] TextArm(s, idx, pred) = "^" ->
            AfterInline(s, InlineAround(s, TextUntil(s, idx + 1, <<>>, <<>>, UntilChar("^")),
                                        "SmallCaps"),
                        Flush(text, buffer), pred)
      [] TextArm(s, idx, pred) = Backtick ->
            AfterInline(s, SpanAround(s, TextUntil(s, idx + 1, <<>>, <<>>,
                                                   UntilChar(Backtick))),
                        Flush(text, buffer), pred)
      [] TextArm(s, idx, pred) = "escape at end" -> PR(idx + 2, EndOfBlockEscape, text)
      [] TextArm(s, idx, pred) = "escaped" ->
            TextUntil(s, idx + 2, text, Append(buffer, Get(s, idx + 1)), pred)
      [] TextArm(s, idx, pred) = "whitespace" ->
            TextUntil(s, SkipWhitespaceVirtual(s, idx + 1), text, Append(buffer, " "), pred)
      [] TextArm(s, idx, pred) = "push" ->
            TextUntil(s, idx + PlainRun(s, idx, pred), text,
                      buffer \o SubSeq(s, idx + 1, idx + PlainRun(s, idx, pred)), pred)

\* Block::text_rest
TextRest(s, idx, text) == TextUntil(s, idx, text, <<>>, Never)

\* Block::text_until_hard_line
TextUntilHardLine(s, idx, text) == TextUntil(s, idx, text, <<>>, UntilHardLine)


\* ------------------------------------------------------------------------
\* Block::parse: the block built from a slice
\* ------------------------------------------------------------------------
\* Ok(None), and the value that goes with an Err
ParsedNone == [kind |-> "None"]

ParseFailed(r) == PR(r.idx, r.err, ParsedNone)

\* document::Text turned into a block: a paragraph
ParagraphBlock(text) == [kind |-> "Paragraph", text |-> text, class |-> <<>>, id |-> <<>>]

\* Heading::new() with the level set, and BlockCommon::new()
HeadingBlock(level) ==
    [kind |-> "Heading", level |-> level, numbered |-> TRUE, toc |-> TRUE,
     title |-> <<>>, class |-> <<>>, id |-> <<>>]

\* Contents::new() and BlockCommon::new()
ContentsBlock ==
    [kind |-> "Contents", title |-> TextFrom(K_TableOfContents), max_level |-> 6,
     class |-> <<>>, id |-> <<>>]

\* List::new() and BlockCommon::new()
ListBlock == [kind |-> "List", items |-> <<>>, ordered |-> FALSE, class |-> <<>>, id |-> <<>>]

\* Table::new() and BlockCommon::new()
TableBlock ==
    [kind |-> "Table", title |-> <<>>, numbered |-> TRUE, columns |-> <<>>,
     rows |-> <<>>, class |-> <<>>, id |-> <<>>]

\* Gloss::new() and BlockCommon::new()
GlossBlock ==
    [kind |-> "Gloss", title |-> <<>>, numbered |-> TRUE, preamble |-> <<>>,
     gloss |-> <<>>, postamble |-> <<>>, class |-> <<>>, id |-> <<>>]

\* Row::new(), Column::new(), Cell::new(), ListItem, GlossLine
RowNew == [cells |-> <<>>, header |-> FALSE, class |-> <<>>]
ColumnNew == [header |-> FALSE, class |-> <<>>]
CellNew == [rows |-> 1, cols |-> 1, class |-> <<>>, text |-> <<>>]
ListItem(text, sublist) == [text |-> text, sublist |-> sublist]
GlossLine(words, class) == [words |-> words, class |-> class]

\* the title (or text) read last completes the block
WithTitle(b, t) == IF Failed(t) THEN ParseFailed(t) ELSE PR(t.idx, NoErr, [b EXCEPT !.title = t.val])

\* the arm of any other directive and of any other character: the cursor is
\* put back on the first non-whitespace character and a paragraph is read
ParagraphOf(t) == IF Failed(t) THEN ParseFailed(t) ELSE PR(t.idx, NoErr, ParagraphBlock(t.val))

ParagraphArm(s, start) == ParagraphOf(TextRest(s, start, <<>>))

\* `while let Some('#') = self.next() {}`: the cursor when the loop ends,
\* one past the character that ended it
RECURSIVE HashRunEnd(_, _)
HashRunEnd(s, idx) == IF Get(s, idx) = "#" THEN HashRunEnd(s, idx + 1) ELSE idx + 1

\* parse.rs:268: `let level = self.idx - start`
HeadingLevel(s, start) == HashRunEnd(s, start + 1) - start

HeadingTitle(s, u) ==
    IF Failed(u) THEN ParseFailed(u) ELSE WithTitle(u.val, TextRest(s, u.idx, <<>>))

\* the `#` arm, the first `#` read by next(); the cursor is moved back one
\* character before the parameters are read
HeadingArm(s, start) ==
    HeadingTitle(s, UpdateMultiple(s, HashRunEnd(s, start + 1) - 1, "Heading",
                                   HeadingBlock(HeadingLevel(s, start))))

\* the "toc" arm: the text is appended to the default title
ContentsTitle(s, u) ==
    IF Failed(u) THEN ParseFailed(u) ELSE WithTitle(u.val, TextRest(s, u.idx, u.val.title))

ContentsArm(s, idx) == ContentsTitle(s, UpdateMultiple(s, idx, "Contents", ContentsBlock))

\* the indentation of the line at the cursor
Indent(s, idx) == SkipWhitespaceVirtual(s, idx) - idx

\* Block::list_tree
RECURSIVE ListTree(_, _, _, _)
ListTreeSub(s, text, sub, last_indent, parent) ==
    IF Failed(sub) THEN sub
    ELSE ListTree(s, sub.idx, last_indent, Append(parent, ListItem(text, sub.val)))

ListTreeItem(s, t, indent, last_indent, parent) ==
    IF Failed(t) THEN t
    ELSE ListTreeSub(s, t.val, ListTree(s, t.idx, indent, <<>>), last_indent, parent)

ListTree(s, idx, last_indent, parent) ==
    IF Indent(s, idx) <= last_indent THEN PR(idx, NoErr, parent)
    ELSE ListTreeItem(s, TextUntilHardLine(s, idx + Indent(s, idx) + 2, <<>>),
                      Indent(s, idx), last_indent, parent)

\* the "list" arm: the loop over the top-level items
RECURSIVE ListItems(_, _, _)
ListItemSub(s, text, sub, items) ==
    IF Failed(sub) THEN sub
    ELSE ListItems(s, sub.idx, Append(items, ListItem(text, sub.val)))

ListItemText(s, t, indent, items) ==
    IF Failed(t) THEN t
    ELSE ListItemSub(s, t.val, ListTree(s, t.idx, indent, <<>>), items)

ListItems(s, idx, items) ==
    IF idx >= Len(s) THEN PR(idx, NoErr, items)
    ELSE ListItemText(s, TextUntilHardLine(s, idx + Indent(s, idx) + 2, <<>>),
                      Indent(s, idx), items)

ListOf(b, r) == IF Failed(r) THEN ParseFailed(r) ELSE PR(r.idx, NoErr, [b EXCEPT !.items = r.val])

ListBody(s, u) == IF Failed(u) THEN ParseFailed(u) ELSE ListOf(u.val, ListItems(s, u.idx, <<>>))

ListArm(s, idx) == ListBody(s, UpdateMultiple(s, idx, "List", ListBlock))

\* the arm taken by the loops over the `|` of a row, in the order of the
\* source (parse.rs:126-142 and 154-175)
BarArm(s, idx) ==
    IF Get(s, idx) = NoChar THEN "end"
    ELSE IF Get(s, idx) = "|" THEN "|"
    ELSE IF MatchHardLine(s, idx + 1, Get(s, idx)) THEN "hard line"
    ELSE IF IsWhitespace(Get(s, idx)) THEN "whitespace"
    ELSE "other"

\* the "table" arm: the cells of a row (parse.rs:153-176)
RECURSIVE RowCells(_, _, _)

\* parse.rs:163-166: after a cell, the row goes on only if the cursor is on
\* a `|`
CellPushed(s, idx, row) ==
    IF Get(s, idx) = "|" THEN RowCells(s, idx, row) ELSE PR(idx, NoErr, row)

CellText(s, cell, t, row) ==
    IF Failed(t) THEN t
    ELSE CellPushed(s, t.idx, [row EXCEPT !.cells = Append(@, [cell EXCEPT !.text = t.val])])

CellRead(s, u, row) ==
    IF Failed(u) THEN u
    ELSE CellText(s, u.val, TextUntil(s, u.idx, <<>>, <<>>, UntilCellEnd), row)

RowCells(s, idx, row) ==
    CASE BarArm(s, idx) = "end" -> PR(idx + 1, NoErr, row)
      [] BarArm(s, idx) = "|" -> CellRead(s, UpdateMultiple(s, idx + 1, "Cell", CellNew), row)
      [] BarArm(s, idx) = "hard line" -> PR(idx + 1, NoErr, row)
      [] BarArm(s, idx) = "whitespace" -> RowCells(s, idx + 1, row)
      [] BarArm(s, idx) = "other" -> PR(idx + 1, ExpectedErr("|", Get(s, idx)), row)

\* the loop over the rows (parse.rs:146-179): whitespace and two more
\* characters are skipped unread, then the row's parameters and cells
RECURSIVE TableRows(_, _, _)
RowDone(s, r, b) ==
    IF Failed(r) THEN ParseFailed(r)
    ELSE TableRows(s, r.idx, [b EXCEPT !.rows = Append(@, r.val)])

RowRead(s, u, b) ==
    IF Failed(u) THEN ParseFailed(u) ELSE RowDone(s, RowCells(s, u.idx, u.val), b)

TableRows(s, idx, b) ==
    IF Get(s, idx) = NoChar THEN PR(idx, NoErr, b)
    ELSE RowRead(s, UpdateMultiple(s, SkipWhitespaceVirtual(s, idx) + 2, "Row", RowNew), b)

\* the column parameter row (parse.rs:125-143)
RECURSIVE TableColumns(_, _, _)
ColumnRead(s, u, b) ==
    IF Failed(u) THEN ParseFailed(u)
    ELSE TableColumns(s, u.idx, [b EXCEPT !.columns = Append(@, u.val)])

TableColumns(s, idx, b) ==
    CASE BarArm(s, idx) = "end" -> TableRows(s, idx + 1, b)
      [] BarArm(s, idx) = "|" ->
            ColumnRead(s, UpdateMultiple(s, idx + 1, "Column", ColumnNew), b)
      [] BarArm(s, idx) = "hard line" -> TableRows(s, idx + 1, b)
      [] BarArm(s, idx) = "whitespace" -> TableColumns(s, idx + 1, b)
      [] BarArm(s, idx) = "other" -> PR(idx + 1, ExpectedErr("|", Get(s, idx)), ParsedNone)

TableTitled(s, b, t) ==
    IF Failed(t) THEN ParseFailed(t)
    ELSE TableColumns(s, t.idx, [b EXCEPT !.title = t.val])

TableTitle(s, u) ==
    IF Failed(u) THEN ParseFailed(u)
    ELSE TableTitled(s, u.val, TextUntil(s, u.idx, <<>>, <<>>, UntilChar("\n")))

TableArm(s, idx) == TableTitle(s, UpdateMultiple(s, idx, "Table", TableBlock))

\* the "gloss" arm: the words of a split line (parse.rs:229-247)
RECURSIVE GlossWords(_, _, _)

\* the arm taken for the character at the cursor (parse.rs:230-246)
WordArm(s, idx) ==
    IF Get(s, idx) = NoChar THEN "end"
    ELSE IF MatchHardLine(s, idx + 1, Get(s, idx)) THEN "hard line"
    ELSE IF IsWhitespace(Get(s, idx)) THEN "whitespace"
    ELSE "word"

GlossWord(s, t, words) ==
    IF Failed(t) THEN t ELSE GlossWords(s, t.idx - 1, Append(words, t.val))

GlossWords(s, idx, words) ==
    CASE WordArm(s, idx) = "end" -> PR(idx + 1, NoErr, words)
      [] WordArm(s, idx) = "hard line" -> PR(idx + 1, NoErr, words)
      [] WordArm(s, idx) = "whitespace" -> GlossWords(s, idx + 1, words)
      [] WordArm(s, idx) = "word" ->
            GlossWord(s, TextUntil(s, idx, <<>>, <<>>, UntilWhitespace), words)

\* a nosplit line with its class, if any
ClassedLine(text, class) == IF class # <<>> THEN WithClass(text, class) ELSE text

\* every nosplit line taken as preamble
AlwaysPreamble(g, line) == [g EXCEPT !.preamble = Append(@, line)]

\* parse.rs:214-218: a nosplit line before any split line is preamble
AddNoSplit(g, line) ==
    IF g.gloss = <<>> THEN [g EXCEPT !.preamble = Append(@, line)]
    ELSE [g EXCEPT !.postamble = Append(@, line)]

\* the loop over the lines of the gloss (parse.rs:191-251)
RECURSIVE GlossLines(_, _, _)
GlossSplit(s, w, class, g) ==
    IF Failed(w) THEN ParseFailed(w)
    ELSE GlossLines(s, w.idx, [g EXCEPT !.gloss = Append(@, GlossLine(w.val, class))])

GlossNoSplit(s, t, class, g) ==
    IF Failed(t) THEN ParseFailed(t)
    ELSE GlossLines(s, t.idx, AddNoSplit(g, ClassedLine(t.val, class)))

GlossLineRead(s, u, g) ==
    IF Failed(u) THEN ParseFailed(u)
    ELSE IF ~u.val.split
    THEN GlossNoSplit(s, TextUntilHardLine(s, u.idx, <<>>), u.val.class, g)
    ELSE IF g.postamble # <<>> THEN PR(u.idx, GlossLineErr, ParsedNone)
    ELSE GlossSplit(s, GlossWords(s, u.idx, <<>>), u.val.class, g)

GlossLines(s, idx, g) ==
    IF Get(s, idx) = NoChar THEN PR(idx, NoErr, g)
    ELSE GlossLineRead(s, UpdateMultiple(s, SkipWhitespaceVirtual(s, idx) + 2, "GlossLine",
                                         [split |-> TRUE, class |-> <<>>]), g)

GlossTitled(s, b, t) ==
    IF Failed(t) THEN ParseFailed(t)
    ELSE GlossLines(s, t.idx, [b EXCEPT !.title = t.val])

GlossTitle(s, u) ==
    IF Failed(u) THEN ParseFailed(u)
    ELSE GlossTitled(s, u.val, TextUntilHardLine(s, u.idx, <<>>))

GlossArm(s, idx) == GlossTitle(s, UpdateMultiple(s, idx, "Gloss", GlossBlock))

\* parse.rs:90-262: the match on the name of the leading directive
DirectiveArm(s, start, d) ==
    IF Failed(d) THEN ParseFailed(d)
    ELSE IF d.val = K_toc THEN ContentsArm(s, d.idx)
    ELSE IF d.val = K_list THEN ListArm(s, d.idx)
    ELSE IF d.val = K_table THEN TableArm(s, d.idx)
    ELSE IF d.val = K_gloss THEN GlossArm(s, d.idx)
    ELSE ParagraphArm(s, start)

\* parse.rs:85-288, start being the first non-whitespace character
ParseFrom(s, start) ==
    IF Get(s, start) = ":" THEN DirectiveArm(s, start, Directive(s, start + 1))
    ELSE IF Get(s, start) = "#" THEN HeadingArm(s, start)
    ELSE IF Get(s, start) = NoChar THEN PR(start + 1, NoErr, ParsedNone)
    ELSE ParagraphArm(s, start)

\* Block::parse
Parse(s) == ParseFrom(s, SkipWhitespaceVirtual(s, 0))


\* ------------------------------------------------------------------------
\* A block is built from a slice and parsed once
\* ------------------------------------------------------------------------
\* no parse() call was made yet
NotParsed == [err |-> NoErr, val |-> [kind |-> "NotParsed"]]

\* Block::new
InitParse ==
    /\ slice = <<>>
    /\ block_idx = 0
    /\ parsed = NotParsed

Outcome(r) == [err |-> r.err, val |-> r.val]

\* Block::new(s, start) followed by parse()
ParseBlock(s) ==
    /\ parsed = NotParsed
    /\ slice' = s
    /\ block_idx' = Parse(s).idx
    /\ parsed' = Outcome(Parse(s))
    /\ UNCHANGED <<docVars, tableVars, mainVars, glossVars, callVars, inputVars, renderVars>>

\* ---- the slices handed to parse() ----
MaxHashes == 3
MaxRowCells == 3
MaxSliceLen == 3

RECURSIVE Repeat(_, _)
Repeat(c, n) == IF n = 0 THEN <<>> ELSE <<c>> \o Repeat(c, n - 1)

\* the sequences of at most n elements of S
RECURSIVE SeqsOver(_, _)
SeqsOver(S, n) ==
    IF n = 0 THEN {<<>>}
    ELSE SeqsOver(S, n - 1) \cup {Append(q, c) : q \in SeqsOver(S, n - 1), c \in S}

Leading == {<<>>, <<" ">>, <<"\n", " ">>}

HeadingTails ==
    {<<>>, <<"\n">>, <<" ", "T", "\n">>, <<"T", "\n">>, <<"T">>,
     <<"[", "n", "o", "n", "u", "m", "b", "e", "r", "]", " ", "T", "\n">>,
     <<" ", "[", "i", "d", "=", "x", "]", "T", "\n">>,
     <<"[", "z", "=", "1", "]", "T", "\n">>,
     <<"[", "T", "\n">>}

HeadingSlices ==
    {w \o Repeat("#", n) \o t : w \in Leading, n \in 1..MaxHashes, t \in HeadingTails}

DirectiveNames == {K_toc, K_list, K_table, K_gloss, K_replace, K_ref, K_link, <<"x">>, <<>>}

DirectiveTails ==
    {<<>>, <<"\n">>, <<" ", "a", "\n">>, <<"[", "c", "]", " ", "a", "\n">>,
     <<"\n", ":", ":", " ", "a", "\n">>,
     <<"\n", ":", ":", " ", "a", "\n", " ", ":", ":", " ", "b", "\n", ":", ":", "c", "\n">>,
     <<"\n", ":", ":", "[", "n", "o", "s", "p", "l", "i", "t", "]", "a", "\n",
       ":", ":", "a", " ", "b", "\n">>,
     <<"[", "m", "a", "x", "_", "l", "e", "v", "e", "l", "=", "2", "]", "\n">>,
     <<"[", "m", "a", "x", "_", "l", "e", "v", "e", "l", "=", "x", "]", "\n">>,
     <<"\n", "|", "[", "h", "e", "a", "d", "e", "r", "]", "|", "\n",
       ":", ":", "|", "[", "r", "o", "w", "s", "=", "2", "]", "a", "|", "|", "b", "\n">>}

DirectiveSlices ==
    {w \o <<":">> \o n \o <<":">> \o t :
        w \in Leading, n \in DirectiveNames, t \in DirectiveTails}

\* the head of a table block with an empty column parameter row
TableHead == <<":">> \o K_table \o <<":", " ", "T", "\n", "|", "\n">>

CellLetters == <<"a", "b", "c", "d", "e">>

\* `::|a|b|c`: n cells of one letter, sep between a cell and the next
RECURSIVE CellsText(_, _, _)
CellsText(i, n, sep) ==
    IF i > n THEN <<>>
    ELSE IF i = n THEN <<"|", CellLetters[i]>>
    ELSE <<"|", CellLetters[i]>> \o Tail(sep) \o CellsText(i + 1, n, sep)

RowText(n, sep) == <<":", ":">> \o CellsText(1, n, sep)

SingleBar == <<"|">>
DoubleBar == <<"|", "|">>

RowEnds == {<<>>, <<"\n">>}

TableSlices ==
    {TableHead \o RowText(n, sep) \o e :
        n \in 1..MaxRowCells, sep \in {SingleBar, DoubleBar}, e \in RowEnds}
    \cup {TableHead \o RowText(n, sep) \o <<"\n">> \o RowText(k, sep) \o e :
            n \in 1..MaxRowCells, k \in 1..MaxRowCells,
            sep \in {SingleBar, DoubleBar}, e \in RowEnds}

\* a gloss block whose lines are nosplit ("N") or split ("S"), line i holding
\* the single word CellLetters[i]
MaxGlossLines == 4

GlossHead == <<":">> \o K_gloss \o <<":", "\n">>

GlossLineText(kind, i) ==
    IF kind = "N" THEN <<":", ":", "[">> \o K_nosplit \o <<"]", CellLetters[i], "\n">>
    ELSE <<":", ":", CellLetters[i], "\n">>

RECURSIVE GlossLinesText(_, _)
GlossLinesText(kinds, i) ==
    IF i > Len(kinds) THEN <<>>
    ELSE GlossLineText(kinds[i], i) \o GlossLinesText(kinds, i + 1)

GlossSlice(kinds) == GlossHead \o GlossLinesText(kinds, 1)

RECURSIVE KindSeqs(_)
KindSeqs(n) ==
    IF n = 0 THEN {<<>>}
    ELSE KindSeqs(n - 1) \cup {Append(q, k) : q \in KindSeqs(n - 1), k \in {"N", "S"}}

GlossSlices == {GlossSlice(kinds) : kinds \in KindSeqs(MaxGlossLines)}

\* blocks of the five kinds that take block parameters, with one parameter
ParamKinds == {"Heading", "Contents", "List", "Table", "Gloss"}

BlockStart(kind) ==
    CASE kind = "Heading" -> <<"#", " ">>
      [] kind = "Contents" -> <<":">> \o K_toc \o <<":">>
      [] kind = "List" -> <<":">> \o K_list \o <<":">>
      [] kind = "Table" -> <<":">> \o K_table \o <<":">>
      [] kind = "Gloss" -> <<":">> \o K_gloss \o <<":">>

BlockEnd(kind) ==
    CASE kind = "Heading" -> <<" ", "T", "\n">>
      [] kind = "Contents" -> <<"\n">>
      [] kind = "List" -> <<"\n", ":", ":", " ", "a", "\n">>
      [] kind = "Table" -> <<" ", "T", "\n", "|", "\n", ":", ":", "|", "a", "\n">>
      [] kind = "Gloss" -> <<"\n", ":", ":", "a", "\n">>

K_foo == <<"f", "o", "o">>

KeylessWords == {K_foo, K_nonumber, K_notoc, K_ordered, K_header, <<"x">>}

KeyedTexts ==
    {K_class \o <<"=", "c">>, K_id \o <<"=", "i">>, <<"k", "=", "v">>,
     K_nonumber \o <<"=", "1">>}

ParamSlice(kind, text) == BlockStart(kind) \o <<"[">> \o text \o <<"]">> \o BlockEnd(kind)

ParamSlices == {ParamSlice(kind, t) : kind \in ParamKinds, t \in KeylessWords \cup KeyedTexts}

\* a paragraph that starts with `x` between single or double delimiters
FormatDelims == {"*", "_"}

FormatRests == {<<"\n">>, <<"b", "\n">>, <<" ", "b", "\n">>}

FormatSlice(d, n, rest) == Repeat(d, n) \o <<"x">> \o Repeat(d, n) \o rest

FormatSlices == {FormatSlice(d, n, rest) : d \in FormatDelims, n \in 1..2, rest \in FormatRests}

\* a paragraph with a brace group between `a` and `b`
BraceContents ==
    {<<"x">>, <<"*">>, <<"_">>, <<"^">>, <<Backtick>>, <<":">>, <<"*", "x", "*">>,
     <<"\\", "}">>, <<"x", " ", "y">>}

BraceSlice(content) == <<"a", "{">> \o content \o <<"}", "b", "\n">>

BraceSlices == {BraceSlice(content) : content \in BraceContents}

\* a paragraph with escapes and whitespace between `a` and `b`
MaxMidLen == 3

MidAlphabet == {"\\", " ", "\n", "x"}

MidSlice(mid) == <<"a">> \o mid \o <<"b", "\n">>

MidSlices == {MidSlice(mid) : mid \in SeqsOver(MidAlphabet, MaxMidLen)}

\* a list block whose item i holds the letter CellLetters[i] and is indented
\* by indents[i] spaces
MaxItems == 3
MaxIndent == 2

ListHead == <<":">> \o K_list \o <<":", "\n">>

RECURSIVE ItemsText(_, _)
ItemsText(indents, i) ==
    IF i > Len(indents) THEN <<>>
    ELSE Repeat(" ", indents[i]) \o <<":", ":", CellLetters[i], "\n">>
         \o ItemsText(indents, i + 1)

IndentedList(indents) == ListHead \o ItemsText(indents, 1)

IndentSeqs == SeqsOver(0..MaxIndent, MaxItems) \ {<<>>}

IndentedLists == {IndentedList(indents) : indents \in IndentSeqs}

\* a table whose single cell has one span parameter: `::|[rows=0]a`
SpanKeys == {K_rows, K_cols}

SpanValues == {<<"0">>, <<"1">>, <<"2">>, <<"+", "0">>, <<"0", "0">>, <<"x">>, <<"-", "1">>, <<>>}

SpanSlice(key, value) ==
    TableHead \o <<":", ":", "|", "[">> \o key \o <<"=">> \o value \o <<"]", "a", "\n">>

SpanSlices == {SpanSlice(key, value) : key \in SpanKeys, value \in SpanValues}

Alphabet == {"#", ":", "a", "\n", "*", "["}

RECURSIVE SeqsUpTo(_)
SeqsUpTo(n) ==
    IF n = 0 THEN {<<>>}
    ELSE SeqsUpTo(n - 1) \cup {Append(q, c) : q \in SeqsUpTo(n - 1), c \in Alphabet}

ShortSlices == SeqsUpTo(MaxSliceLen)

ParseHeading == \E s \in HeadingSlices : ParseBlock(s)

ParseDirective == \E s \in DirectiveSlices : ParseBlock(s)

ParseTable == \E s \in TableSlices : ParseBlock(s)

ParseShort == \E s \in ShortSlices : ParseBlock(s)

ParseGloss == \E s \in GlossSlices : ParseBlock(s)

ParseParams == \E s \in ParamSlices : ParseBlock(s)

ParseFormat == \E s \in FormatSlices : ParseBlock(s)

ParseBraces == \E s \in BraceSlices : ParseBlock(s)

ParseMid == \E s \in MidSlices : ParseBlock(s)

ParseList == \E s \in IndentedLists : ParseBlock(s)

ParseSpans == \E s \in SpanSlices : ParseBlock(s)

NextParse == ParseHeading \/ ParseDirective \/ ParseTable \/ ParseShort \/ ParseGloss
             \/ ParseParams \/ ParseFormat \/ ParseBraces \/ ParseMid \/ ParseList
             \/ ParseSpans

\* ------------------------------------------------------------------------
\* The driver (src/src/main.rs) over the blocks of Input::next_block
\* ------------------------------------------------------------------------
\* a line that cannot be read (invalid UTF-8)
BadLine == <<"BAD">>

ReadErr == [chain |-> <<"Unicode">>, arg |-> <<>>]

\* line.trim().len() == 0
IsBlank(line) == \A i \in 1..Len(line) : IsWhitespace(line[i])

\* Input::next_block: the lines left, the error or the buffer of the block
RECURSIVE NextBlock(_, _)
NextBlock(ls, buffer) ==
    IF ls = <<>> THEN [rest |-> ls, err |-> NoErr, buffer |-> buffer]
    ELSE IF Head(ls) = BadLine THEN [rest |-> Tail(ls), err |-> ReadErr, buffer |-> buffer]
    ELSE IF IsBlank(Head(ls))
    THEN IF buffer # <<>> THEN [rest |-> Tail(ls), err |-> NoErr, buffer |-> buffer]
         ELSE NextBlock(Tail(ls), buffer)
    ELSE NextBlock(Tail(ls), buffer \o Head(ls) \o <<"\n">>)

InitMain ==
    /\ lines = <<>>
    /\ output = <<>>
    /\ main_pc = "start"

\* print_errors(e)
ErrorPrinted(err) == [kind |-> "error", what |-> err.chain]

\* println!("{:?}", block)
BlockPrinted(b) == [kind |-> "block", what |-> <<b.kind>>]

MaxLines == 3

InputLines == {<<"a">>, <<":", "a">>, <<>>, BadLine}

RECURSIVE Files(_)
Files(n) ==
    IF n = 0 THEN {<<>>}
    ELSE Files(n - 1) \cup {Append(f, l) : f \in Files(n - 1), l \in InputLines}

\* main.rs:18-19: the input is opened
MainStart(file) ==
    /\ main_pc = "start"
    /\ lines' = file
    /\ main_pc' = "loop"
    /\ UNCHANGED <<output, docVars, tableVars, parseVars, glossVars, callVars, inputVars, renderVars>>

\* main.rs:32-38: what parse() returned is printed, an error or a block
AfterParse(r) == IF Failed(r) THEN ErrorPrinted(r.err) ELSE BlockPrinted(r.val)

\* main.rs:21-27: next_block failed, the error is printed and the loop goes on
MainReadError(nb) ==
    /\ nb.err # NoErr
    /\ lines' = nb.rest
    /\ output' = Append(output, ErrorPrinted(nb.err))
    /\ UNCHANGED main_pc

\* main.rs:29-31: the empty block ends the run
MainReturn(nb) ==
    /\ nb.err = NoErr
    /\ nb.buffer = <<>>
    /\ lines' = nb.rest
    /\ main_pc' = "returned"
    /\ UNCHANGED output

\* main.rs:32-38: the block is parsed; the loop goes on after an error as
\* after a block
MainParse(nb) ==
    /\ nb.err = NoErr
    /\ nb.buffer # <<>>
    /\ lines' = nb.rest
    /\ output' = Append(output, AfterParse(Parse(nb.buffer)))
    /\ UNCHANGED main_pc

\* one turn of the loop of main
MainLoop ==
    /\ main_pc = "loop"
    /\ \/ MainReadError(NextBlock(lines, <<>>))
       \/ MainReturn(NextBlock(lines, <<>>))
       \/ MainParse(NextBlock(lines, <<>>))
    /\ UNCHANGED <<docVars, tableVars, parseVars, glossVars, callVars, inputVars, renderVars>>

NextMain == (\E f \in Files(MaxLines) : MainStart(f)) \/ MainLoop


\* ------------------------------------------------------------------------
\* Headings only, none with an explicit id
\* ------------------------------------------------------------------------
Paragraph(id) == MkBlock("para", id, 0, FALSE, FALSE, NoRepl)

HeadingInputs ==
    {HeadingNew(l, n, TRUE, <<>>) : l \in 1..MaxLevel, n \in BOOLEAN}

\* the number of add_block calls made so far is the number of real blocks
\* (fillers are not handed in by the caller)
RECURSIVE CountReal(_)
CountReal(bs) ==
    IF bs = <<>> THEN 0
    ELSE (IF bs[1].kind = "filler" THEN 0 ELSE 1) + CountReal(Tail(bs))

AddHeading ==
    /\ CountReal(blocks) < MaxCalls
    /\ \E b \in HeadingInputs : AddBlock(b)

AddParagraph ==
    /\ CountReal(blocks) < MaxCalls
    /\ AddBlock(Paragraph(<<>>))

NextSections == AddHeading \/ AddParagraph


\* ------------------------------------------------------------------------
\* The gloss renderer: Gloss::write (blocks/gloss.rs)
\* ------------------------------------------------------------------------
MaxBodyLines == 2
MaxWords == 2

\* the inline kinds whose content is a Text
Wrappers == {"Emphasis", "Strong", "Italics", "Bold", "SmallCaps", "Span"}

\* Text::starts_with and InlineType::starts_with
RECURSIVE TextStartsWith(_, _)
InlineStartsWith(inl, c) ==
    CASE inl.kind \in Wrappers -> TextStartsWith(inl.inner, c)
      [] inl.kind = "Link" -> TextStartsWith(inl.title, c)
      [] inl.kind = "Text" -> inl.s # <<>> /\ inl.s[1] = c
      [] OTHER -> FALSE

TextStartsWith(text, c) ==
    IF text = <<>> THEN FALSE ELSE InlineStartsWith(text[1], c)

\* Text::ends_with and InlineType::ends_with
RECURSIVE TextEndsWith(_, _)
InlineEndsWith(inl, c) ==
    CASE inl.kind \in Wrappers -> TextEndsWith(inl.inner, c)
      [] inl.kind = "Link" -> TextEndsWith(inl.title, c)
      [] inl.kind = "Text" -> inl.s # <<>> /\ inl.s[Len(inl.s)] = c
      [] OTHER -> FALSE

TextEndsWith(text, c) ==
    IF text = <<>> THEN FALSE ELSE InlineEndsWith(text[Len(text)], c)

\* what is written: an element (or the separating space) with the class
\* attribute and the text written inside it
Tok(tag, class, text) == [tag |-> tag, class |-> class, text |-> text]

\* self.gloss.iter().map(|line| line.words.len()).max(); -1 stands for None
RECURSIVE MaxWordCount(_, _)
MaxWordCount(body, j) ==
    IF j > Len(body) THEN -1
    ELSE IF Len(body[j].words) >= MaxWordCount(body, j + 1) THEN Len(body[j].words)
    ELSE MaxWordCount(body, j + 1)

num_words(g) == MaxWordCount(g.gloss, 1)

\* line.words.get(i): the empty text stands for None, for which nothing is
\* written
WordGet(line, i) == IF i < Len(line.words) THEN line.words[i + 1] ELSE <<>>

\* is_prefix
is_prefix(g, i) ==
    i < Len(g.gloss[1].words) /\ TextStartsWith(g.gloss[1].words[i + 1], "-")

\* add_space never set
AddSpaceNever(g, i) == FALSE

\* the value of add_space after group i
NextAddSpace(g, i) ==
    i < Len(g.gloss[1].words) /\ TextEndsWith(g.gloss[1].words[i + 1], "-")

\* the <dd> elements of group i, one per line after the first
RECURSIVE DdOf(_, _, _)
DdOf(g, i, j) ==
    IF j > Len(g.gloss) THEN <<>>
    ELSE <<Tok("dd", g.gloss[j].class, WordGet(g.gloss[j], i))>> \o DdOf(g, i, j + 1)

\* one iteration of the loop over 0..num_words
GroupOf(g, i, space) ==
    (IF space \/ ~is_prefix(g, i) THEN <<Tok(" ", <<>>, <<>>)>> ELSE <<>>)
    \o <<Tok("<dl>", <<>>, <<>>), Tok("dt", g.gloss[1].class, WordGet(g.gloss[1], i))>>
    \o DdOf(g, i, 2)
    \o <<Tok("</dl>", <<>>, <<>>)>>

\* the paragraphs of the preamble and of the postamble
RECURSIVE Paragraphs(_, _, _)
Paragraphs(tag, texts, j) ==
    IF j > Len(texts) THEN <<>>
    ELSE <<Tok(tag, <<>>, texts[j])>> \o Paragraphs(tag, texts, j + 1)

InitGloss ==
    /\ gloss_block = GlossBlock
    /\ gloss_out = <<>>
    /\ gloss_i = 0
    /\ add_space = FALSE
    /\ gloss_pc = "idle"

\* Gloss::write up to the loop: the opening <div>, the heading and the
\* preamble
GlossBegin(g) ==
    /\ gloss_pc = "idle"
    /\ gloss_block' = g
    /\ gloss_out' = <<Tok("<div>", g.class, <<>>), Tok("gloss-heading", <<>>, g.title)>>
                      \o Paragraphs("preamble", g.preamble, 1)
    /\ gloss_i' = 0
    /\ add_space' = FALSE
    /\ gloss_pc' = "groups"
    /\ UNCHANGED <<docVars, tableVars, parseVars, mainVars, callVars, inputVars, renderVars>>

\* one iteration of `for i in 0..num_words`
GlossGroup ==
    /\ gloss_pc = "groups"
    /\ gloss_i < num_words(gloss_block)
    /\ gloss_out' = gloss_out \o GroupOf(gloss_block, gloss_i, add_space)
    /\ add_space' = NextAddSpace(gloss_block, gloss_i)
    /\ gloss_i' = gloss_i + 1
    /\ UNCHANGED <<gloss_block, gloss_pc>>
    /\ UNCHANGED <<docVars, tableVars, parseVars, mainVars, callVars, inputVars, renderVars>>

\* after the loop (or without it when there is no body line): the postamble
\* and the closing </div>
GlossEnd ==
    /\ gloss_pc = "groups"
    /\ ~(gloss_i < num_words(gloss_block))
    /\ gloss_out' = gloss_out \o Paragraphs("postamble", gloss_block.postamble, 1)
                      \o <<Tok("</div>", <<>>, <<>>)>>
    /\ gloss_pc' = "done"
    /\ UNCHANGED <<gloss_block, gloss_i, add_space>>
    /\ UNCHANGED <<docVars, tableVars, parseVars, mainVars, callVars, inputVars, renderVars>>

\* the glosses rendered: words with and without a leading or trailing `-`
GlossWordSet ==
    {TextFrom(<<"a">>), TextFrom(<<"-", "a">>),
     <<Inline("Emphasis", <<>>, TextFrom(<<"a", "-">>), <<>>)>>}

GlossLineSet == {GlossLine(w, <<>>) : w \in SeqsOver(GlossWordSet, MaxWords)}

GlossAmbles == {<<>>, <<TextFrom(<<"p">>)>>}

GlossInputs ==
    {[GlossBlock EXCEPT !.gloss = b, !.preamble = a, !.postamble = a] :
        b \in SeqsOver(GlossLineSet, MaxBodyLines), a \in GlossAmbles}

GlossWrite == \E g \in GlossInputs : GlossBegin(g)

NextGloss == GlossWrite \/ GlossGroup \/ GlossEnd

\* ------------------------------------------------------------------------
\* Block::parameters called on a block whose cursor is at call_start
\* ------------------------------------------------------------------------
MaxCallLen == 4
MaxParams == 2

NotCalled == [idx |-> NoneIdx, err |-> NoErr, val |-> <<>>]

InitCall ==
    /\ call_slice = <<>>
    /\ call_start = 0
    /\ call_result = NotCalled

\* Block::new(slice, start) with idx set to start, then parameters()
CallParameters(s, start) ==
    /\ call_result = NotCalled
    /\ call_slice' = s
    /\ call_start' = start
    /\ call_result' = Parameters(s, start)
    /\ UNCHANGED <<docVars, tableVars, parseVars, mainVars, glossVars, inputVars, renderVars>>

\* every short block over the characters that matter to parameters()
CallAlphabet == {" ", "\n", "a", "[", "]"}

CallOnShort ==
    \E s \in SeqsOver(CallAlphabet, MaxCallLen) : \E start \in 0..Len(s) :
        CallParameters(s, start)

\* a parameter as written: its key words (none for a bare word) and its value
\* words
AsWritten(keyed, key, value) == [keyed |-> keyed, key |-> key, value |-> value]

WrittenParams ==
    {AsWritten(FALSE, <<>>, v) : v \in {<<"a">>, <<"a", "b">>}}
    \cup {AsWritten(TRUE, <<"k">>, <<"v">>), AsWritten(TRUE, <<"k", "l">>, <<"v", "w">>)}

\* the whitespace put around a parameter and between two of its words
Spacings ==
    {[pad |-> <<>>, run |-> <<" ">>], [pad |-> <<" ">>, run |-> <<" ", " ">>],
     [pad |-> <<" ">>, run |-> <<"\n", " ">>]}

RECURSIVE WordsText(_, _)
WordsText(words, run) ==
    IF words = <<>> THEN <<>>
    ELSE IF Len(words) = 1 THEN <<words[1]>>
    ELSE <<words[1]>> \o run \o WordsText(Tail(words), run)

WrittenText(p, pad, run) ==
    IF p.keyed
    THEN pad \o WordsText(p.key, run) \o pad \o <<"=">> \o pad \o WordsText(p.value, run) \o pad
    ELSE pad \o WordsText(p.value, run) \o pad

RECURSIVE ListText(_, _, _)
ListText(ps, pad, run) ==
    IF ps = <<>> THEN <<>>
    ELSE IF Len(ps) = 1 THEN WrittenText(ps[1], pad, run)
    ELSE WrittenText(ps[1], pad, run) \o <<",">> \o ListText(Tail(ps), pad, run)

ListSlice(ps, pad, run, rest) == <<"[">> \o ListText(ps, pad, run) \o <<"]">> \o rest

Rests == {<<>>, <<" ", "x">>}

CallOnList ==
    \E ps \in SeqsOver(WrittenParams, MaxParams) \ {<<>>} :
        \E sp \in Spacings, rest \in Rests :
            CallParameters(ListSlice(ps, sp.pad, sp.run, rest), 0)

NextCall == CallOnShort \/ CallOnList

\* ------------------------------------------------------------------------
\* Input::next_block called repeatedly on one input (input.rs)
\* ------------------------------------------------------------------------
MaxTextLen == 5
MaxBlockCalls == 4

\* BufRead::lines: the text cut at each newline; a last line without
\* newline is a line, nothing follows a final newline
RECURSIVE LinesOf(_, _)
LinesOf(text, line) ==
    IF text = <<>> THEN (IF line = <<>> THEN <<>> ELSE <<line>>)
    ELSE IF Head(text) = "\n" THEN <<line>> \o LinesOf(Tail(text), <<>>)
    ELSE LinesOf(Tail(text), Append(line, Head(text)))

\* Block::new(self.buffer.as_ref(), start_line); NoneIdx stands for None
BlockNew(buffer, start) == [slice |-> buffer, start |-> start]

\* the start line is the number of every line read
StartLineLast(buffer, start_line, line_number) == line_number

\* input.rs:49-52: the first line of the block sets the start line
StartLine(buffer, start_line, line_number) ==
    IF buffer = <<>> THEN line_number ELSE start_line

\* Input::next_block with the line numbers of enumerate(): the lines left,
\* the number of the next line and the block returned
RECURSIVE NextBlockFrom(_, _, _, _)
NextBlockFrom(ls, line_number, buffer, start_line) ==
    IF ls = <<>>
    THEN [rest |-> ls, line_number |-> line_number, block |-> BlockNew(buffer, start_line)]
    ELSE IF IsBlank(Head(ls))
    THEN IF buffer # <<>>
         THEN [rest |-> Tail(ls), line_number |-> line_number + 1,
               block |-> BlockNew(buffer, start_line)]
         ELSE NextBlockFrom(Tail(ls), line_number + 1, buffer, start_line)
    ELSE NextBlockFrom(Tail(ls), line_number + 1, buffer \o Head(ls) \o <<"\n">>,
                       StartLine(buffer, start_line, line_number))

InitInput ==
    /\ in_text = <<>>
    /\ in_lines = <<>>
    /\ in_line_number = 0
    /\ in_returned = <<>>
    /\ in_pc = "start"

\* Input::new(input)
InputNew(text) ==
    /\ in_pc = "start"
    /\ in_text' = text
    /\ in_lines' = LinesOf(text, <<>>)
    /\ in_line_number' = 0
    /\ in_pc' = "open"
    /\ UNCHANGED in_returned
    /\ UNCHANGED <<docVars, tableVars, parseVars, mainVars, glossVars, callVars, renderVars>>

Returned1(nb) ==
    /\ in_lines' = nb.rest
    /\ in_line_number' = nb.line_number
    /\ in_returned' = Append(in_returned, nb.block)

\* one call of next_block: the buffer is cleared and start_line is None
CallNextBlock ==
    /\ in_pc = "open"
    /\ Len(in_returned) < MaxBlockCalls
    /\ Returned1(NextBlockFrom(in_lines, in_line_number, <<>>, NoneIdx))
    /\ UNCHANGED <<in_text, in_pc>>
    /\ UNCHANGED <<docVars, tableVars, parseVars, mainVars, glossVars, callVars, renderVars>>

TextAlphabet == {"a", " ", "\n"}

OpenInput == \E text \in SeqsOver(TextAlphabet, MaxTextLen) : InputNew(text)

NextInput == OpenInput \/ CallNextBlock

\* ------------------------------------------------------------------------
\* Table::write over a whole table: the column of every cell
\* ------------------------------------------------------------------------
MaxGridRows == 3
MaxGridCells == 2

\* the columns of the cells written so far in the row and continuation_cells
RowState(cc, cols) == [cc |-> cc, cols |-> cols]

\* table.rs:55-76: `for cell in &row.cells`, from column c on
RECURSIVE RowColumns(_, _, _, _)
\* (the vector is handed on as a tuple: `\o <<>>` enumerates the function)
RowColumnsAt(sk, cells, cols) ==
    RowColumns(Occupy(Resized(sk[1], sk[2] + Head(cells).cols), sk[2], Head(cells)) \o <<>>,
               sk[2] + Head(cells).cols, Tail(cells), Append(cols, sk[2]))

RowColumns(cc, c, cells, cols) ==
    IF cells = <<>> THEN RowState(cc, cols)
    ELSE RowColumnsAt(SkipContinued(cc, c), cells, cols)

\* table.rs:50-77: `for row in &self.rows`, col = 0 at the start of each row
RECURSIVE WriteColumns(_, _)
WriteColumnsAfter(row, rest) == <<row.cols>> \o WriteColumns(row.cc, rest)

WriteColumns(cc, rows) ==
    IF rows = <<>> THEN <<>>
    ELSE WriteColumnsAfter(RowColumns(cc, 0, Head(rows), <<>>), Tail(rows))

NotRendered == <<<<NoneIdx>>>>

InitRender ==
    /\ table_rows = <<>>
    /\ table_cols = NotRendered

\* Table::write of a table with the rows given; continuation_cells starts empty
TableWrite(rows) ==
    /\ table_cols = NotRendered
    /\ table_rows' = rows
    /\ table_cols' = WriteColumns(<<>>, rows)
    /\ UNCHANGED <<docVars, tableVars, parseVars, mainVars, glossVars, callVars, inputVars>>

\* cells whose spans are at least 1, rows of any length up to MaxGridCells
SpanCells == [rows : 1..MaxRowSpan, cols : 1..MaxColSpan]

GridRows == SeqsOver(SpanCells, MaxGridCells)

WriteTable == \E rows \in SeqsOver(GridRows, MaxGridRows) : TableWrite(rows)

NextRender == WriteTable

Init ==
    /\ InitDoc /\ InitTable /\ InitParse /\ InitMain /\ InitGloss /\ InitCall
    /\ InitInput /\ InitRender

SpecSections == Init /\ [][NextSections]_vars

\* ------------------------------------------------------------------------
\* Blocks of every kind, some with explicit ids
\* ------------------------------------------------------------------------
IdA == <<"a">>
IdSec1 == <<"s", "e", "c", "-", "1">>
IdNoId0 == <<"_", "_", "n", "o", "-", "i", "d", "-", "0">>

Table(numbered, id) == MkBlock("table", id, 0, numbered, FALSE, NoRepl)
Gloss(numbered, id) == MkBlock("gloss", id, 0, numbered, FALSE, NoRepl)
ReplaceBlock(repl) == MkBlock("replace", <<>>, 0, FALSE, FALSE, repl)

ReplInputs ==
    {[k \in {"k1"} |-> v] : v \in {"v1", "v2"}}
    \cup {[k \in {"k1", "k2"} |-> IF k = "k1" THEN v ELSE "v1"] : v \in {"v1", "v2"}}

DocHeadingInputs ==
    {HeadingNew(l, n, TRUE, id) : l \in 1..MaxDocLevel, n \in BOOLEAN, id \in {<<>>, IdA}}
    \cup {HeadingNew(1, TRUE, FALSE, <<>>), HeadingNew(1, TRUE, TRUE, IdSec1)}

DocOtherInputs ==
    {Paragraph(id) : id \in {<<>>, IdA, IdNoId0}}
    \cup {Table(n, <<>>) : n \in BOOLEAN}
    \cup {Gloss(n, <<>>) : n \in BOOLEAN}
    \cup {Table(TRUE, IdA)}

DocAddHeading ==
    /\ CountReal(blocks) < MaxDocCalls
    /\ \E b \in DocHeadingInputs : AddBlock(b)

DocAddReplacements ==
    /\ CountReal(blocks) < MaxDocCalls
    /\ \E r \in ReplInputs : AddBlock(ReplaceBlock(r))

DocAddOther ==
    /\ CountReal(blocks) < MaxDocCalls
    /\ \E b \in DocOtherInputs : AddBlock(b)

\* ------------------------------------------------------------------------
\* References: InlineType::write, Reference arm (text.rs) and
\* Referenceable::write_reference (blocks/heading.rs, table.rs, gloss.rs)
\* ------------------------------------------------------------------------
\* write_section_number: the number in nested spans, each closed by its last
\* component and a dot
RECURSIVE WriteSectionNumber(_)
WriteSectionNumber(number) ==
    IF number = <<>> THEN <<>>
    ELSE <<"<span class=secnum>">>
         \o WriteSectionNumber(SubSeq(number, 1, Len(number) - 1))
         \o Dec(number[Len(number)]) \o <<".", "</span>">>

\* self.title.write_inline(w, document): the title of the block written
TitleWritten(b) == <<"title of ">> \o b.id

\* only headings can be referenced
HeadingsOnly(b) == b.kind = "heading"

\* BlockType::as_referenceable: Some for Heading, Table and Gloss
AsReferenceable(b) == b.kind \in {"heading", "table", "gloss"}

\* Referenceable::write_reference of Heading, Table and Gloss
WriteReference(b) ==
    CASE b.kind = "heading" ->
           <<"section ">> \o (IF b.numbered THEN WriteSectionNumber(b.number)
                              ELSE TitleWritten(b))
      [] b.kind = "table" ->
           IF b.numbered THEN <<"table ">> \o Dec(b.num)
           ELSE <<"table ">> \o TitleWritten(b)
      [] b.kind = "gloss" ->
           IF b.numbered THEN <<"gloss ">> \o Dec(b.num)
           ELSE <<"gloss ">> \o TitleWritten(b)

\* <span class="...">#id</span>
RefSpan(class, id) == <<"<span class=", class, ">", "#">> \o id \o <<"</span>">>

\* Document::get_id
GetId(idmap, bs, id) == IF id \in DOMAIN idmap THEN bs[idmap[id] + 1] ELSE NoBlock

\* InlineType::write, the arm InlineType::Reference(id)
WriteInlineReference(idmap, bs, id) ==
    IF GetId(idmap, bs, id) # NoBlock
    THEN IF AsReferenceable(GetId(idmap, bs, id))
         THEN WriteReference(GetId(idmap, bs, id))
         ELSE RefSpan("unreferenceable-block", id)
    ELSE RefSpan("undefined-reference", id)

NextDoc == DocAddHeading \/ DocAddReplacements \/ DocAddOther

SpecDoc == Init /\ [][NextDoc]_vars

SpecTable == Init /\ [][NextTable]_vars

SpecParse == Init /\ [][NextParse]_vars

SpecMain == Init /\ [][NextMain]_vars

SpecGloss == Init /\ [][NextGloss]_vars

SpecCall == Init /\ [][NextCall]_vars

SpecInput == Init /\ [][NextInput]_vars

SpecRender == Init /\ [][NextRender]_vars

\* ------------------------------------------------------------------------
\* Properties of the heading tree
\* ------------------------------------------------------------------------
\* every SectionList of the document: the root's and each heading-like block's
AllSectionLists ==
    {sections} \cup {blocks[i].children : i \in {j \in 1..Len(blocks) : IsHeadingLike(blocks[j])}}

\* the entries of a SectionList that are numbered headings of the block list,
\* in insertion order
RECURSIVE NumberedEntries(_, _)
NumberedEntries(bs, hs) ==
    IF hs = <<>> THEN <<>>
    ELSE LET rest == NumberedEntries(bs, Tail(hs)) IN
         IF hs[1] + 1 \in 1..Len(bs) /\ HNumbered(bs[hs[1] + 1])
         THEN <<bs[hs[1] + 1]>> \o rest ELSE rest

LastOf(seq) == seq[Len(seq)]

\* C1: the numbered headings of one SectionList carry, in insertion order,
\* numbers whose last component grows by exactly one from each numbered
\* sibling to the next, whatever unnumbered or filler headings lie between.
C1_SiblingNumbersConsecutive ==
    \A sl \in AllSectionLists :
        LET ne == NumberedEntries(blocks, sl.headings) IN
        \A k \in 1..(Len(ne) - 1) :
            /\ ne[k].number # <<>> /\ ne[k + 1].number # <<>>
            /\ LastOf(ne[k + 1].number) = LastOf(ne[k].number) + 1

\* a list holding two numbered headings with an unnumbered heading and a
\* filler in the document, and a skipped level
C1_Witness ==
    /\ \E sl \in AllSectionLists :
        /\ Len(NumberedEntries(blocks, sl.headings)) >= 2
        /\ \E k \in 1..Len(sl.headings) :
            /\ blocks[sl.headings[k] + 1].kind = "heading"
            /\ ~HNumbered(blocks[sl.headings[k] + 1])
            /\ k < Len(sl.headings)
    /\ \E i \in 1..Len(blocks) : blocks[i].kind = "filler"

\* C2 (as claimed): as long as no block carried an explicit id, add_block
\* never returns the duplicate-id error.
C2_AutoIdsNeverCollide ==
    ~explicit_seen => result.kind # "Id"

\* ------------------------------------------------------------------------
\* Properties of ids and replacements
\* ------------------------------------------------------------------------
Called == last.kind # "none"

\* the blocks appended by the last call
NewBlocks == SubSeq(blocks, Len(pre.blocks) + 1, Len(blocks))

\* C3: a block whose id is already registered in the id map gets the
\* duplicate-id error carrying exactly that id, and is not appended to the
\* block list.
C3_DuplicateIdRejected ==
    (Called /\ last.id # <<>> /\ last.id \in DOMAIN pre.ids) =>
        /\ result = ErrId(last.id)
        /\ \A i \in 1..Len(NewBlocks) : NewBlocks[i].kind = "filler"
        /\ \A i \in 1..Len(blocks) : blocks[i].kind # "filler" => blocks[i].id # <<>>
        /\ CountReal(blocks) = CountReal(pre.blocks)

C3_Witness ==
    /\ Called /\ last.id # <<>> /\ last.id \in DOMAIN pre.ids
    /\ result = ErrId(last.id)

CommonKeys == (DOMAIN last.repl) \cap (DOMAIN pre.replacements)

RECURSIVE PathLen(_, _)
PathLen(bs, sl) ==
    IF sl.headings = <<>> THEN 0
    ELSE 1 + PathLen(bs, bs[LastOf(sl.headings) + 1].children)

Min(a, b) == IF a < b THEN a ELSE b

FillersPushed == Cardinality({i \in 1..Len(NewBlocks) : NewBlocks[i].kind = "filler"})

\* C5: adding a heading of level L pushes exactly (L-1) minus the number of
\* levels 1..L-1 already present on the root-to-last-child path fillers:
\* 2 for a level-3 heading in an empty document, 1 after a single level-1
\* heading.
C5_MinimalFillers ==
    (Called /\ last.kind = "heading") =>
        /\ FillersPushed =
              (last.level - 1) - Min(PathLen(pre.blocks, pre.sections), last.level - 1)
        /\ (pre.blocks = <<>> /\ last.level = 3) => FillersPushed = 2
        /\ (Len(pre.blocks) = 1 /\ pre.blocks[1].kind = "heading"
                /\ pre.blocks[1].level = 1 /\ last.level = 3) => FillersPushed = 1

C5_Witness ==
    /\ Called /\ last.kind = "heading" /\ last.level = 3
    /\ Len(pre.blocks) = 1 /\ pre.blocks[1].kind = "heading" /\ pre.blocks[1].level = 1
    /\ FillersPushed = 1

\* ------------------------------------------------------------------------
\* Properties of the table renderer
\* ------------------------------------------------------------------------
\* rows a+1..b have all been begun and each has at least one cell
RowsNonEmpty(a, b) ==
    /\ b <= Len(written)
    /\ \A k \in (a + 1)..b : written[k].cells >= 1

\* row i starts with a cell at column 0 that spans at least two rows and at
\* least one column
SpanAtZero(i) ==
    /\ written[i].cells >= 1
    /\ written[i].first.col = 0
    /\ written[i].first.rows >= 2
    /\ written[i].first.cols >= 1

\* C9 (as claimed): after a cell with rows = r >= 2 and cols = c >= 1 at column 0,
\* the first cell of each of the next r-1 rows is at column c, and the first
\* cell of the row after those is at column 0.
C9_BelowSpanAtColumnC ==
    \A i \in 1..Len(written) : SpanAtZero(i) =>
        /\ \A j \in 1..(written[i].first.rows - 1) :
              RowsNonEmpty(i, i + j) => written[i + j].first.col = written[i].first.cols
        /\ RowsNonEmpty(i, i + written[i].first.rows) =>
              written[i + written[i].first.rows].first.col = 0

\* no cell of rows 1..b other than the first cell of row i spans several rows
OnlySpan(i, b) ==
    \A k \in 1..b :
        /\ ~written[k].others_span
        /\ (k # i /\ written[k].cells >= 1) => written[k].first.rows < 2

\* C9 (amended): the first cell of each of the next r-1 rows is at a column
\* >= c, and at column c itself when no other cell written before it spans
\* several rows; the first cell of the row after those is at column 0.
C9_BelowSpanSkipsIt ==
    \A i \in 1..Len(written) : SpanAtZero(i) =>
        /\ \A j \in 1..(written[i].first.rows - 1) :
              RowsNonEmpty(i, i + j) =>
                /\ written[i + j].first.col >= written[i].first.cols
                /\ OnlySpan(i, i + j - 1) =>
                      written[i + j].first.col = written[i].first.cols
        /\ RowsNonEmpty(i, i + written[i].first.rows) =>
              written[i + written[i].first.rows].first.col = 0

\* a rows=2, cols=2 cell at column 0, the row below starting at column 2 and
\* the row after that at column 0
C9_Witness ==
    \E i \in 1..Len(written) :
        /\ SpanAtZero(i)
        /\ written[i].first.rows = 2 /\ written[i].first.cols = 2
        /\ RowsNonEmpty(i, i + 2)
        /\ written[i + 1].first.col = 2
        /\ written[i + 2].first.col = 0

\* ------------------------------------------------------------------------
\* Properties of the block parser
\* ------------------------------------------------------------------------
HasParsed == parsed # NotParsed

\* the first non-whitespace character of the block
FirstIdx == SkipWhitespaceVirtual(slice, 0)

\* the length of the run of `#` that starts at i
RECURSIVE CountHashes(_, _)
CountHashes(s, i) == IF Get(s, i) = "#" THEN 1 + CountHashes(s, i + 1) ELSE 0

\* C6: a block whose first non-whitespace characters are a run of n >= 1
\* `#` parses to a Heading whose level is exactly n, and the character that
\* follows the run is not eaten with the run: when it is the letter T, the
\* title starts with it.
C6_HeadingLevelIsRunLength ==
    (HasParsed /\ parsed.err = NoErr /\ Get(slice, FirstIdx) = "#") =>
        /\ parsed.val.kind = "Heading"
        /\ parsed.val.level = CountHashes(slice, FirstIdx)
        /\ Get(slice, FirstIdx + CountHashes(slice, FirstIdx)) = "T" =>
              /\ parsed.val.title # <<>>
              /\ parsed.val.title[1].kind = "Text"
              /\ parsed.val.title[1].s[1] = "T"

\* the names of the block directives and the kind of block of each
BlockNames == {K_toc, K_list, K_table, K_gloss, K_replace}

BlockKindOf(name) ==
    CASE name = K_toc -> "Contents"
      [] name = K_list -> "List"
      [] name = K_table -> "Table"
      [] name = K_gloss -> "Gloss"
      [] name = K_replace -> "Replacements"

\* the inline element a paragraph starts with when the block starts with
\* `:name:`
StartsWithInlineOf(text, name) ==
    /\ text # <<>>
    /\ IF name = K_ref THEN text[1].kind = "Reference"
       ELSE IF name = K_link THEN text[1].kind = "Link"
       ELSE text[1].kind = "Replace" /\ text[1].s = name

\* C7: parse() dispatches on the first non-whitespace character: `:name:`
\* with name one of toc, list, table, gloss, replace gives a block of that
\* kind; `:name:` with another name gives a paragraph that begins with the
\* inline element of `:name:`; `#` gives a heading; any other character a
\* paragraph; an empty block gives None.
C7_DispatchOnFirstCharacter ==
    (HasParsed /\ parsed.err = NoErr) =>
        /\ Get(slice, FirstIdx) = NoChar => parsed.val = ParsedNone
        /\ Get(slice, FirstIdx) = "#" => parsed.val.kind = "Heading"
        /\ Get(slice, FirstIdx) \notin {NoChar, "#", ":"} => parsed.val.kind = "Paragraph"
        /\ Get(slice, FirstIdx) = ":" =>
              IF Directive(slice, FirstIdx + 1).val \in BlockNames
              THEN parsed.val.kind = BlockKindOf(Directive(slice, FirstIdx + 1).val)
              ELSE /\ parsed.val.kind = "Paragraph"
                   /\ StartsWithInlineOf(parsed.val.text, Directive(slice, FirstIdx + 1).val)

\* the cells of a row are the letters a, b, c .. in source order
CellsInOrder(row, n) ==
    /\ Len(row.cells) = n
    /\ \A i \in 1..n : row.cells[i].text = TextFrom(<<CellLetters[i]>>)

\* C10: a table row `::|c1|c2|..|cn`, each cell introduced by a single `|`
\* and the row ended by a hard line or the end of the block, yields one Row
\* with exactly n cells in source order, and the next row starts at the
\* following `::`.
C10_OneCellPerBar ==
    \A n \in 1..MaxRowCells :
        /\ (HasParsed /\ \E e \in RowEnds : slice = TableHead \o RowText(n, SingleBar) \o e) =>
              /\ parsed.err = NoErr
              /\ parsed.val.kind = "Table"
              /\ Len(parsed.val.rows) = 1
              /\ CellsInOrder(parsed.val.rows[1], n)
        /\ \A k \in 1..MaxRowCells :
              (HasParsed /\ \E e \in RowEnds :
                   slice = TableHead \o RowText(n, SingleBar) \o <<"\n">>
                               \o RowText(k, SingleBar) \o e) =>
                 /\ parsed.err = NoErr
                 /\ parsed.val.kind = "Table"
                 /\ Len(parsed.val.rows) = 2
                 /\ CellsInOrder(parsed.val.rows[1], n)
                 /\ CellsInOrder(parsed.val.rows[2], k)

\* ------------------------------------------------------------------------
\* Properties of the driver
\* ------------------------------------------------------------------------
\* C8: an error in reading or parsing a block is fatal to the whole run:
\* nothing is processed or printed for any later block, so an error can
\* only be the last thing printed.
C8_ErrorsAreFatal ==
    \A i \in 1..Len(output) : output[i].kind = "error" => i = Len(output)

\* ------------------------------------------------------------------------
\* Properties of the gloss parser
\* ------------------------------------------------------------------------
\* the lines of kind k among lines 1..Len(kinds), in source order
RECURSIVE LinesOfKind(_, _, _)
LinesOfKind(kinds, k, i) ==
    IF i > Len(kinds) THEN <<>>
    ELSE (IF kinds[i] = k THEN <<i>> ELSE <<>>) \o LinesOfKind(kinds, k, i + 1)

\* some split line comes after a nosplit line that follows a split line
SplitAfterPostamble(kinds) ==
    \E a, b, c \in 1..Len(kinds) :
        a < b /\ b < c /\ kinds[a] = "S" /\ kinds[b] = "N" /\ kinds[c] = "S"

\* the nosplit lines with no split line before them, and the others
BeforeBody(kinds, i) == \A j \in 1..(i - 1) : kinds[j] = "N"

\* line i as it is stored: a text for a nosplit line, a GlossLine of one
\* word for a split line
StoredNoSplit(i) == TextFrom(<<CellLetters[i]>>)

StoredSplit(i) == GlossLine(<<TextFrom(<<CellLetters[i]>>)>>, <<>>)

\* the lines of sq are, in order, the nosplit lines of kinds chosen by pre
IsNoSplitPart(sq, kinds, early) ==
    \E f \in [1..Len(sq) -> 1..Len(kinds)] :
        /\ \A a, b \in 1..Len(sq) : a < b => f[a] < f[b]
        /\ \A a \in 1..Len(sq) : sq[a] = StoredNoSplit(f[a])
        /\ {f[a] : a \in 1..Len(sq)} =
              {i \in 1..Len(kinds) : kinds[i] = "N" /\ (BeforeBody(kinds, i) <=> early)}

IsBody(sq, kinds) ==
    /\ Len(sq) = Len(LinesOfKind(kinds, "S", 1))
    /\ \A a \in 1..Len(sq) : sq[a] = StoredSplit(LinesOfKind(kinds, "S", 1)[a])

\* C11: a split line after a recorded postamble line fails with GlossLine in
\* the block's context; every gloss parsed successfully has its nosplit lines
\* that precede all split lines in the preamble, its split lines in the body
\* and its other nosplit lines in the postamble, each in source order.
C11_GlossOrder ==
    \A kinds \in KindSeqs(MaxGlossLines) :
        (HasParsed /\ slice = GlossSlice(kinds)) =>
            IF SplitAfterPostamble(kinds) THEN parsed.err = GlossLineErr
            ELSE /\ parsed.err = NoErr
                 /\ parsed.val.kind = "Gloss"
                 /\ IsNoSplitPart(parsed.val.preamble, kinds, TRUE)
                 /\ IsBody(parsed.val.gloss, kinds)
                 /\ IsNoSplitPart(parsed.val.postamble, kinds, FALSE)

\* a split line after a postamble line was rejected
C11_Witness ==
    /\ HasParsed
    /\ slice = GlossSlice(<<"N", "S", "N", "S">>)
    /\ parsed.err = GlossLineErr

\* ------------------------------------------------------------------------
\* Properties of the gloss renderer
\* ------------------------------------------------------------------------
\* the characters of a text, formatting removed
RECURSIVE Flat(_)
Flat(text) ==
    IF text = <<>> THEN <<>>
    ELSE (IF text[1].kind = "Text" THEN text[1].s ELSE Flat(text[1].inner)) \o Flat(Tail(text))

\* the number of groups: the largest word count of a body line
GroupCount(g) ==
    IF g.gloss = <<>> THEN 0
    ELSE CHOOSE n \in {Len(g.gloss[j].words) : j \in 1..Len(g.gloss)} :
             \A j \in 1..Len(g.gloss) : Len(g.gloss[j].words) <= n

\* word i (from 1) of body line j, empty when the line is shorter
WordOf(g, j, i) == IF i <= Len(g.gloss[j].words) THEN g.gloss[j].words[i] ELSE <<>>

HeadBegins(g, i) == Flat(WordOf(g, 1, i)) # <<>> /\ Flat(WordOf(g, 1, i))[1] = "-"

HeadEnds(g, i) ==
    Flat(WordOf(g, 1, i)) # <<>> /\ Flat(WordOf(g, 1, i))[Len(Flat(WordOf(g, 1, i)))] = "-"

\* no space before group i iff its head word begins with `-` and the head
\* word before it (if any) did not end with `-`
SpaceBefore(g, i) == ~(HeadBegins(g, i) /\ ~(i > 1 /\ HeadEnds(g, i - 1)))

ExpectedGroup(g, i) ==
    (IF SpaceBefore(g, i) THEN <<Tok(" ", <<>>, <<>>)>> ELSE <<>>)
    \o <<Tok("<dl>", <<>>, <<>>)>>
    \o [j \in 1..Len(g.gloss) |->
           Tok(IF j = 1 THEN "dt" ELSE "dd", g.gloss[j].class, WordOf(g, j, i))]
    \o <<Tok("</dl>", <<>>, <<>>)>>

RECURSIVE ExpectedGroups(_, _)
ExpectedGroups(g, i) ==
    IF i > GroupCount(g) THEN <<>> ELSE ExpectedGroup(g, i) \o ExpectedGroups(g, i + 1)

IsGroupTok(t) == t.tag \in {" ", "<dl>", "dt", "dd", "</dl>"}

IsDl(t) == t.tag = "<dl>"

\* C12: a rendered gloss holds exactly N <dl> groups, N the largest word
\* count of a body line (none without body line); group i holds one <dt>
\* with word i of the first body line and one <dd> per other body line with
\* that line's word i (empty if the line is shorter); a space precedes group
\* i unless head word i begins with `-` and head word i-1 did not end with it.
C12_GlossGroups ==
    gloss_pc = "done" =>
        /\ Len(SelectSeq(gloss_out, IsDl)) = GroupCount(gloss_block)
        /\ SelectSeq(gloss_out, IsGroupTok) = ExpectedGroups(gloss_block, 1)

\* a gloss of two lines of different lengths was written, its second head
\* word a suffix following a prefix-marked word
C12_Witness ==
    /\ gloss_pc = "done"
    /\ Len(gloss_block.gloss) = 2
    /\ Len(gloss_block.gloss[1].words) = 2
    /\ Flat(gloss_block.gloss[1].words[1]) = <<"a", "-">>
    /\ Flat(gloss_block.gloss[1].words[2]) = <<"-", "a">>
    /\ Len(gloss_block.gloss[2].words) = 1
    /\ Len(SelectSeq(gloss_out, IsDl)) = 2

\* ------------------------------------------------------------------------
\* Properties of references
\* ------------------------------------------------------------------------
\* the ids a reference may name: those of the blocks and some others
RefIds == {blocks[i].id : i \in 1..Len(blocks)} \cup {IdA, IdSec1, IdNoId0, <<"z">>, <<>>}

\* the blocks that carry id
Carriers(id) == {i \in 1..Len(blocks) : blocks[i].id = id /\ id # <<>>}

\* the reference text of a referenceable block
ReferenceText(b) ==
    IF b.kind = "heading" /\ b.numbered THEN <<"section ">> \o WriteSectionNumber(b.number)
    ELSE IF b.kind \in {"table", "gloss"} /\ b.numbered
    THEN <<IF b.kind = "table" THEN "table " ELSE "gloss ">> \o Dec(b.num)
    ELSE <<(IF b.kind = "heading" THEN "section "
            ELSE IF b.kind = "table" THEN "table " ELSE "gloss "),
           "title of ">> \o b.id

\* C13: a reference to id is written from the document as it is when written:
\* the reference text of the block carrying id if it is a heading, table or
\* gloss (`section ` and the section number for a numbered heading), an
\* unreferenceable-block span if the block is of another kind, an
\* undefined-reference span if no block carries id, whatever the order in
\* which the blocks were added.
C13_ReferenceResolved ==
    \A id \in RefIds :
        /\ \A i \in Carriers(id) :
              WriteInlineReference(ids, blocks, id) =
                  IF blocks[i].kind \in {"heading", "table", "gloss"}
                  THEN ReferenceText(blocks[i])
                  ELSE <<"<span class=", "unreferenceable-block", ">", "#">> \o id \o <<"</span>">>
        /\ Carriers(id) = {} =>
              WriteInlineReference(ids, blocks, id) =
                  <<"<span class=", "undefined-reference", ">", "#">> \o id \o <<"</span>">>

\* a paragraph, a table and a numbered heading with id `a` added after them:
\* the three outcomes in one document
C13_Witness ==
    /\ Len(blocks) = 3
    /\ blocks[1].kind = "para"
    /\ blocks[2].kind = "table" /\ blocks[2].numbered
    /\ blocks[3].kind = "heading" /\ blocks[3].numbered /\ blocks[3].id = IdA
    /\ WriteInlineReference(ids, blocks, IdA) = <<"section ", "<span class=secnum>", "1", ".", "</span>">>
    /\ WriteInlineReference(ids, blocks, blocks[1].id) # WriteInlineReference(ids, blocks, <<"z">>)
    /\ WriteInlineReference(ids, blocks, blocks[2].id) = <<"table ", "1">>

\* ------------------------------------------------------------------------
\* Properties of block parameters
\* ------------------------------------------------------------------------
\* the keyless words the handler of each kind recognises
RecognisedWords(kind) ==
    CASE kind = "Heading" -> {K_nonumber, K_notoc}
      [] kind = "Contents" -> {}
      [] kind = "List" -> {K_ordered}
      [] kind \in {"Table", "Gloss"} -> {K_nonumber}

\* C14: a keyless parameter on a heading, toc, list, table or gloss that the
\* kind's handler does not recognise is accepted and becomes the class; the
\* unknown-parameter error is raised for keyed parameters only.
C14_KeylessIsClass ==
    \A kind \in ParamKinds :
        /\ \A w \in KeylessWords :
              (HasParsed /\ slice = ParamSlice(kind, w)) =>
                  /\ parsed.err = NoErr
                  /\ parsed.val.kind = kind
                  /\ w \notin RecognisedWords(kind) => parsed.val.class = w
        /\ (HasParsed /\ slice = ParamSlice(kind, <<"k", "=", "v">>)) =>
              parsed.err = ParameterErr(<<"k">>)
        /\ (HasParsed /\ slice = ParamSlice(kind, K_nonumber \o <<"=", "1">>)) =>
              parsed.err = ParameterErr(K_nonumber)
        /\ (HasParsed /\ slice = ParamSlice(kind, K_class \o <<"=", "c">>)) =>
              parsed.err = NoErr /\ parsed.val.class = <<"c">>
        /\ (HasParsed /\ slice = ParamSlice(kind, K_id \o <<"=", "i">>)) =>
              parsed.err = NoErr /\ parsed.val.id = <<"i">>

\* `:gloss:[foo]` was parsed and the gloss took foo as its class
C14_Witness ==
    /\ HasParsed
    /\ slice = ParamSlice("Gloss", K_foo)
    /\ parsed.err = NoErr
    /\ parsed.val.class = K_foo

\* ------------------------------------------------------------------------
\* Properties of Block::parameters
\* ------------------------------------------------------------------------
ParametersCalled == call_result # NotCalled

\* the first character at or after position i (from 0) that is not
\* whitespace, "EOF" at the end of the block
RECURSIVE NextVisible(_, _)
NextVisible(s, i) ==
    IF i >= Len(s) THEN "EOF"
    ELSE IF s[i + 1] \in {" ", "\n", "\t"} THEN NextVisible(s, i + 1)
    ELSE s[i + 1]

\* C15: when the next non-whitespace character is not `[` (the end of the
\* block included), parameters() returns the empty list and leaves the cursor
\* where it was, the whitespace skipped not consumed.
C15_NoListNoAdvance ==
    (ParametersCalled /\ NextVisible(call_slice, call_start) # "[") =>
        /\ call_result.err = NoErr
        /\ call_result.val = <<>>
        /\ call_result.idx = call_start

\* parameters() was called in front of whitespace followed by a plain
\* character
C15_Witness ==
    /\ ParametersCalled
    /\ call_slice = <<"a", " ", "\n", "a">>
    /\ call_start = 1
    /\ call_result.idx = 1
    /\ call_result.val = <<>>

\* the words of a parameter separated by single spaces
RECURSIVE Spaced(_)
Spaced(words) ==
    IF words = <<>> THEN <<>>
    ELSE IF Len(words) = 1 THEN <<words[1]>>
    ELSE <<words[1], " ">> \o Spaced(Tail(words))

FormatKind(d, n) ==
    IF d = "*" THEN (IF n = 1 THEN "Emphasis" ELSE "Strong")
    ELSE (IF n = 1 THEN "Italics" ELSE "Bold")

\* the literal run read from what follows the element: the newline that ends
\* the block is read as one space
RestRun(rest) == SubSeq(rest, 1, Len(rest) - 1) \o <<" ">>

\* C17: for d either `*` or `_`, `d x d` is Emphasis / Italics and `dd x dd`
\* is Strong / Bold, each holding x and closed by the delimiter that opened
\* it; the text after the closing delimiter is read next.
C17_DelimitersClose ==
    \A d \in FormatDelims, n \in 1..2, rest \in FormatRests :
        (HasParsed /\ slice = FormatSlice(d, n, rest)) =>
            /\ parsed.err = NoErr
            /\ parsed.val.kind = "Paragraph"
            /\ parsed.val.text =
                  <<Inline(FormatKind(d, n), <<>>, TextFrom(<<"x">>), <<>>),
                    TextInline(RestRun(rest))>>

\* the characters of a brace group's content, each backslash dropped and the
\* character after it kept
RECURSIVE Unescaped(_)
Unescaped(content) ==
    IF content = <<>> THEN <<>>
    ELSE IF content[1] = "\\" /\ Len(content) >= 2
    THEN <<content[2]>> \o Unescaped(SubSeq(content, 3, Len(content)))
    ELSE <<content[1]>> \o Unescaped(Tail(content))

\* C18: the content of a `{...}` group in inline text is taken as it is but
\* for backslash escapes: `*`, `_`, `^`, the backtick and `:` inside the
\* braces are literal characters and start no inline element.
C18_BracesVerbatim ==
    \A content \in BraceContents :
        (HasParsed /\ slice = BraceSlice(content)) =>
            /\ parsed.err = NoErr
            /\ parsed.val.kind = "Paragraph"
            /\ \A i \in 1..Len(parsed.val.text) : parsed.val.text[i].kind = "Text"
            /\ Flat(parsed.val.text) = <<"a">> \o Unescaped(content) \o <<"b", " ">>

\* the literal runs of a text, those inside its elements included
RECURSIVE LiteralRuns(_)
LiteralRuns(text) ==
    IF text = <<>> THEN {}
    ELSE (IF text[1].kind = "Text" THEN {text[1].s} ELSE LiteralRuns(text[1].inner))
         \cup LiteralRuns(Tail(text))

\* no whitespace but the space, and no two spaces in a row
Collapsed(run) ==
    /\ \A i \in 1..Len(run) : run[i] \notin {"\n", "\t"}
    /\ \A i \in 1..(Len(run) - 1) : ~(run[i] = " " /\ run[i + 1] = " ")

\* C19: every literal run text_until produces is whitespace-collapsed, for
\* every input, escapes and brace groups included: its only whitespace
\* character is the space, never twice in a row.
C19_RunsCollapsed ==
    (HasParsed /\ parsed.err = NoErr /\ parsed.val.kind = "Paragraph") =>
        \A run \in LiteralRuns(parsed.val.text) : Collapsed(run)

\* ------------------------------------------------------------------------
\* Properties of the list parser
\* ------------------------------------------------------------------------
\* the nearest item before i that is indented strictly less, 0 if none
ParentOf(indents, i) ==
    IF \E j \in 1..(i - 1) : indents[j] < indents[i]
    THEN CHOOSE j \in 1..(i - 1) :
             /\ indents[j] < indents[i]
             /\ \A k \in (j + 1)..(i - 1) : ~(indents[k] < indents[i])
    ELSE 0

\* the items whose parent is p, from item i on, in source order, each with
\* its own sublist
RECURSIVE ChildrenOf(_, _, _)
ChildrenOf(indents, p, i) ==
    IF i > Len(indents) THEN <<>>
    ELSE (IF ParentOf(indents, i) = p
          THEN <<ListItem(TextFrom(<<CellLetters[i]>>), ChildrenOf(indents, i, i + 1))>>
          ELSE <<>>)
         \o ChildrenOf(indents, p, i + 1)

\* C20: in a list block every `::` item, the items after the first included,
\* is nested under the nearest item before it that is indented strictly
\* less, and is a top-level item if there is none; the items of one parent
\* keep their source order.
C20_ListNesting ==
    \A indents \in IndentSeqs :
        (HasParsed /\ slice = IndentedList(indents)) =>
            /\ parsed.err = NoErr
            /\ parsed.val.kind = "List"
            /\ parsed.val.items = ChildrenOf(indents, 0, 1)

\* ------------------------------------------------------------------------
\* Properties of Input::next_block
\* ------------------------------------------------------------------------
BlankLine(line) == \A i \in 1..Len(line) : line[i] \in {" ", "\t", "\n"}

\* lines i..j of ls form a maximal run of non-blank lines
IsRun(ls, i, j) ==
    /\ i <= j
    /\ \A k \in i..j : ~BlankLine(ls[k])
    /\ i = 1 \/ BlankLine(ls[i - 1])
    /\ j = Len(ls) \/ BlankLine(ls[j + 1])

RunStarts(ls) == {i \in 1..Len(ls) : \E j \in i..Len(ls) : IsRun(ls, i, j)}

RunEnd(ls, i) == CHOOSE j \in i..Len(ls) : IsRun(ls, i, j)

\* the k-th smallest element of a set of numbers
KthOf(S, k) == CHOOSE x \in S : Cardinality({y \in S : y < x}) = k - 1

RECURSIVE LinesJoined(_, _, _)
LinesJoined(ls, i, j) ==
    IF i > j THEN <<>> ELSE ls[i] \o <<"\n">> \o LinesJoined(ls, i + 1, j)

\* the k-th block of the input: its k-th run of lines and the 0-based number
\* of the run's first line; the empty block after the last run
ExpectedBlock(ls, k) ==
    IF k <= Cardinality(RunStarts(ls))
    THEN [slice |-> LinesJoined(ls, KthOf(RunStarts(ls), k), RunEnd(ls, KthOf(RunStarts(ls), k))),
          start |-> KthOf(RunStarts(ls), k) - 1]
    ELSE [slice |-> <<>>, start |-> NoneIdx]

\* C21: next_block returns the maximal runs of non-blank lines in input
\* order, each with the 0-based number of its first line, any number of
\* blank lines being one separator; after the last block every call returns
\* the empty block without start line, with or without a final newline or
\* trailing blank lines.
C21_BlocksAreRuns ==
    \A k \in 1..Len(in_returned) :
        in_returned[k] = ExpectedBlock(LinesOf(in_text, <<>>), k)

\* two blocks separated by two blank lines, no final newline, then two calls
\* after the end
C21_Witness ==
    /\ in_text = <<"a", "\n", "\n", "\n", "a">>
    /\ Len(in_returned) = 4
    /\ in_returned[2] = [slice |-> <<"a", "\n">>, start |-> 3]
    /\ in_returned[4] = [slice |-> <<>>, start |-> NoneIdx]

\* ------------------------------------------------------------------------
\* Properties of table and gloss numbering
\* ------------------------------------------------------------------------
\* how many of the blocks 1..i are numbered blocks of the kind
NumberedUpTo(bs, kind, i) ==
    Cardinality({j \in 1..i : bs[j].kind = kind /\ bs[j].numbered})

\* the 0-based positions of the blocks of the kind, in order
RECURSIVE PositionsOf(_, _, _)
PositionsOf(bs, kind, i) ==
    IF i > Len(bs) THEN <<>>
    ELSE (IF bs[i].kind = kind THEN <<i - 1>> ELSE <<>>) \o PositionsOf(bs, kind, i + 1)

CounterStep(kind) == IF last.kind = kind /\ last.numbered THEN 1 ELSE 0

TrackedStep(kind, list) ==
    IF last.kind = kind THEN Append(list, Len(pre.blocks)) ELSE list

\* C22: the k-th numbered table gets number k and the k-th numbered gloss
\* number k; a call moves the table counter only for a numbered table and the
\* gloss counter only for a numbered gloss; every table and every gloss, also
\* an unnumbered one, has its index appended to its tracking list.
C22_TablesAndGlossesNumbered ==
    /\ \A i \in 1..Len(blocks) :
        /\ (blocks[i].kind = "table" /\ blocks[i].numbered)
            => blocks[i].num = NumberedUpTo(blocks, "table", i)
        /\ (blocks[i].kind = "gloss" /\ blocks[i].numbered)
            => blocks[i].num = NumberedUpTo(blocks, "gloss", i)
    /\ table_number = pre.table_number + CounterStep("table")
    /\ gloss_number = pre.gloss_number + CounterStep("gloss")
    /\ tables = TrackedStep("table", pre.tables)
    /\ glosses = TrackedStep("gloss", pre.glosses)
    /\ result = Ok =>
        /\ tables = PositionsOf(blocks, "table", 1)
        /\ glosses = PositionsOf(blocks, "gloss", 1)

\* a numbered table, an unnumbered one and the second numbered table
C22_Witness ==
    /\ Len(blocks) = 3
    /\ blocks[1].kind = "table" /\ blocks[1].num = 1
    /\ blocks[2].kind = "table" /\ ~blocks[2].numbered
    /\ blocks[3].kind = "table" /\ blocks[3].num = 2
    /\ tables = <<0, 1, 2>>
    /\ gloss_number = 0

\* ------------------------------------------------------------------------
\* Properties of cell spans
\* ------------------------------------------------------------------------
\* C23: every cell of a parsed table has rows >= 1 and cols >= 1; no accepted
\* `rows=` or `cols=` value makes a span count 0.
C23_SpansPositive ==
    (HasParsed /\ parsed.err = NoErr /\ parsed.val.kind = "Table") =>
        \A r \in 1..Len(parsed.val.rows) :
            \A c \in 1..Len(parsed.val.rows[r].cells) :
                /\ parsed.val.rows[r].cells[c].rows >= 1
                /\ parsed.val.rows[r].cells[c].cols >= 1

\* ------------------------------------------------------------------------
\* Properties of section list levels
\* ------------------------------------------------------------------------
\* every index of the list is a heading-like block of the list's level
ListHoldsLevel(sl) ==
    \A k \in 1..Len(sl.headings) :
        /\ sl.headings[k] + 1 \in 1..Len(blocks)
        /\ IsHeadingLike(blocks[sl.headings[k] + 1])
        /\ HLevel(blocks[sl.headings[k] + 1]) = sl.level

\* C24: after successful add_block calls with heading levels >= 1 every
\* heading-like block stored in a SectionList of level L has level L, the
\* root list has level 1 and the children list of a heading-like block of
\* level L has level L + 1.
C24_LevelsMatch ==
    result = Ok =>
        /\ sections.level = 1
        /\ ListHoldsLevel(sections)
        /\ \A i \in 1..Len(blocks) :
            IsHeadingLike(blocks[i]) =>
                /\ blocks[i].children.level = HLevel(blocks[i]) + 1
                /\ ListHoldsLevel(blocks[i].children)

\* a level 3 heading added first: two fillers, of levels 1 and 2, above it
C24_Witness ==
    /\ result = Ok
    /\ Len(blocks) >= 3
    /\ blocks[1].kind = "filler" /\ HLevel(blocks[1]) = 1
    /\ blocks[2].kind = "filler" /\ HLevel(blocks[2]) = 2
    /\ blocks[3].kind = "heading" /\ HLevel(blocks[3]) = 3
    /\ blocks[2].children.headings = <<2>>

\* ------------------------------------------------------------------------
\* Properties of the indices add_block records
\* ------------------------------------------------------------------------
\* how often the index is held by the list
OccurrencesIn(sl, index) == Cardinality({k \in 1..Len(sl.headings) : sl.headings[k] = index})

\* how often the index is held by the root list and the children lists
RECURSIVE OccurrencesBelow(_, _)
OccurrencesBelow(i, index) ==
    IF i > Len(blocks) THEN 0
    ELSE (IF IsHeadingLike(blocks[i]) THEN OccurrencesIn(blocks[i].children, index) ELSE 0)
         + OccurrencesBelow(i + 1, index)

Occurrences(index) == OccurrencesIn(sections, index) + OccurrencesBelow(1, index)

\* the blocks the last call pushed before the block it was given
NewFillerPositions == (Len(pre.blocks) + 1)..(Len(blocks) - 1)

\* C25: after a successful add_block the index recorded for the block in the
\* id map, in its parent SectionList if it is a heading and in the tables or
\* glosses list if it is a table or gloss is the block's position in the
\* block list, also behind fillers; the index recorded for each filler is the
\* filler's position; the earlier blocks keep their positions.
C25_IndicesArePositions ==
    (result = Ok /\ blocks # <<>>) =>
        /\ ids[blocks[Len(blocks)].id] = Len(blocks) - 1
        /\ \A id \in DOMAIN ids : ids[id] + 1 \in 1..Len(blocks) /\ blocks[ids[id] + 1].id = id
        /\ \A p \in 1..Len(blocks) :
            /\ Occurrences(p - 1) = IF IsHeadingLike(blocks[p]) THEN 1 ELSE 0
            /\ OccurrencesIn([headings |-> tables], p - 1) = IF blocks[p].kind = "table" THEN 1 ELSE 0
            /\ OccurrencesIn([headings |-> glosses], p - 1) = IF blocks[p].kind = "gloss" THEN 1 ELSE 0
        /\ \A p \in NewFillerPositions : blocks[p].kind = "filler"
        /\ Len(blocks) > Len(pre.blocks)
        /\ \A p \in 1..Len(pre.blocks) :
            blocks[p].kind = pre.blocks[p].kind /\ blocks[p].id = pre.blocks[p].id

\* a table, then a level 2 heading behind its filler
C25_Witness ==
    /\ result = Ok
    /\ Len(pre.blocks) = 1
    /\ Len(blocks) = 3
    /\ blocks[1].kind = "table"
    /\ blocks[2].kind = "filler"
    /\ blocks[3].kind = "heading"
    /\ ids[blocks[3].id] = 2
    /\ tables = <<0>>
    /\ sections.headings = <<1>>
    /\ blocks[2].children.headings = <<2>>

\* ------------------------------------------------------------------------
\* Properties of the counter an unnumbered heading takes over
\* ------------------------------------------------------------------------
\* the lists of the document: the root list and every children list
AllLists == {sections} \cup {blocks[i].children : i \in {j \in 1..Len(blocks) : IsHeadingLike(blocks[j])}}

\* the list that holds the index
HoldingList(index) == CHOOSE sl \in AllLists : OccurrencesIn(sl, index) = 1

PlaceIn(sl, index) == CHOOSE k \in 1..Len(sl.headings) : sl.headings[k] = index

HasElder(index) == PlaceIn(HoldingList(index), index) > 1

\* the elder sibling: the child before the index in its list
Elder(index) == blocks[HoldingList(index).headings[PlaceIn(HoldingList(index), index) - 1] + 1]

\* the heading-like block whose children list holds the index; none for the root
HasParent(index) == OccurrencesIn(sections, index) = 0

ParentIdx(index) ==
    CHOOSE i \in 1..Len(blocks) :
        IsHeadingLike(blocks[i]) /\ OccurrencesIn(blocks[i].children, index) = 1

NumberedChildren(b) ==
    Cardinality({k \in 1..Len(b.children.headings) : HNumbered(blocks[b.children.headings[k] + 1])})

LastComponent(b) == b.number[Len(b.number)]

NewIdx == Len(blocks) - 1

\* the last call added an unnumbered heading
AddedUnnumbered ==
    result = Ok /\ blocks # <<>> /\ last.kind = "heading" /\ ~HNumbered(last)

\* the last call added the first numbered child of an unnumbered heading
AddedFirstNumberedChild ==
    /\ result = Ok /\ blocks # <<>> /\ last.kind = "heading" /\ HNumbered(last)
    /\ HasParent(NewIdx)
    /\ blocks[ParentIdx(NewIdx)].kind = "heading"
    /\ ~HNumbered(blocks[ParentIdx(NewIdx)])
    /\ NumberedChildren(blocks[ParentIdx(NewIdx)]) = 1

\* what the first numbered child's last component is, given the elder sibling
\* of its parent
FirstChildComponent(parent_idx, of_elder(_)) ==
    LastComponent(blocks[Len(blocks)])
        = IF HasElder(parent_idx - 1) THEN of_elder(Elder(parent_idx - 1)) + 1 ELSE 1

ChildrenCounter(b) == b.children.last_child_number

InheritedOnAdd ==
    AddedUnnumbered =>
        ChildrenCounter(blocks[Len(blocks)])
            = IF HasElder(NewIdx) THEN ChildrenCounter(Elder(NewIdx)) ELSE 0

\* C26 as stated: an unnumbered heading added behind a last child S takes over
\* S's children counter, so its first numbered child gets as last component
\* the number of S's numbered children plus one; without elder sibling the
\* counter stays 0 and the first numbered child gets 1.
C26_FirstChildCountsSiblingChildren ==
    /\ InheritedOnAdd
    /\ AddedFirstNumberedChild => FirstChildComponent(ParentIdx(NewIdx), NumberedChildren)

\* C26 amended: the first numbered child gets S's children counter plus one,
\* where the counter of an unnumbered S is itself the one S took over plus
\* the number of S's numbered children.
C26_FirstChildContinuesCounter ==
    /\ InheritedOnAdd
    /\ AddedFirstNumberedChild => FirstChildComponent(ParentIdx(NewIdx), ChildrenCounter)

\* a numbered heading with one numbered child, an unnumbered heading behind
\* it and that heading's first numbered child, numbered 2
C26_Witness ==
    /\ AddedFirstNumberedChild
    /\ Len(blocks) = 4
    /\ HNumbered(blocks[1]) /\ ~HNumbered(blocks[3])
    /\ blocks[2].number = <<1, 1>>
    /\ blocks[4].number = <<1, 2>>

\* ------------------------------------------------------------------------
\* Properties of the columns of a rendered table
\* ------------------------------------------------------------------------
\* a cell placed in the grid
Placed(r, c, cell) == [row |-> r, col |-> c, rows |-> cell.rows, cols |-> cell.cols]

\* column c of row r is covered by a cell of an earlier row that spans down to r
Covered(prior, r, c) ==
    \E p \in prior : p.row < r /\ p.row + p.rows > r /\ c >= p.col /\ c < p.col + p.cols

RECURSIVE FreeFrom(_, _, _)
FreeFrom(prior, r, c) == IF Covered(prior, r, c) THEN FreeFrom(prior, r, c + 1) ELSE c

\* the columns of the cells of row r, the first one looked for from column c
RECURSIVE GridRow(_, _, _, _)
GridRow(prior, r, c, cells) ==
    IF cells = <<>> THEN <<>>
    ELSE <<FreeFrom(prior, r, c)>>
         \o GridRow(prior, r, FreeFrom(prior, r, c) + Head(cells).cols, Tail(cells))

PlacedRow(r, cells, cols) == {Placed(r, cols[k], cells[k]) : k \in 1..Len(cells)}

\* the grid placement of HTML: row by row, each cell at the leftmost column
\* at or after the end of the cell before it that no earlier row covers
RECURSIVE Grid(_, _, _)
Grid(prior, r, rows) ==
    IF r > Len(rows) THEN <<>>
    ELSE <<GridRow(prior, r, 0, rows[r])>>
         \o Grid(prior \cup PlacedRow(r, rows[r], GridRow(prior, r, 0, rows[r])), r + 1, rows)

Rendered == table_cols # NotRendered

\* C27: for a table whose cells all have rows >= 1 and cols >= 1, rows of any
\* length, the column at which the render loop emits each cell is the
\* leftmost column at or after the end of the row's previous cell that is not
\* covered by a row-spanning cell of an earlier row; a cell with rows = r
\* blocks its columns for the next r - 1 rows and no longer.
C27_GridPlacement ==
    Rendered => table_cols = Grid({}, 1, table_rows)

\* ------------------------------------------------------------------------
\* Properties of a failing add_block
\* ------------------------------------------------------------------------
\* C28: when add_block returns an error (duplicate id) the document, that is
\* the block list, the section lists and their counters, the id map, the
\* replacement map, the tables and glosses lists, the table and gloss
\* counters and the no-id counter, is what it was before the call.
C28_FailureLeavesDocument ==
    result.kind = "Id" => Doc = pre

\* ------------------------------------------------------------------------
\* Properties of the errors of parse()
\* ------------------------------------------------------------------------
\* C29: every error parse() returns has Block(start_line) as its outermost
\* context, whatever the cause: end of block, mismatched delimiter, gloss
\* line after the postamble, unknown parameter key or a numeric parameter
\* value that does not parse.
C29_ErrorsInBlockContext ==
    (HasParsed /\ parsed.err # NoErr) => Head(parsed.err.chain) = "Block"

\* ------------------------------------------------------------------------
\* Properties of the cursor: every loop of the parser moves it forward
\* ------------------------------------------------------------------------
\* the call returned with the cursor behind i, or with an error (the loop exits)
Advances(r, i) == Failed(r) \/ r.idx > i

\* the call did not leave the cursor before i
NotBefore(r, i) == Failed(r) \/ r.idx >= i

StopPredicates ==
    {Never, UntilHardLine, UntilCellEnd, UntilWhitespace}
    \cup {UntilChar(c) : c \in {"}", "*", "^", "\n", Backtick}}

AtChar(i) == Get(slice, i) # NoChar

\* text_until, directive and bracketed read at least one character
ReadersAdvance(i) ==
    /\ \A pred \in StopPredicates : Advances(TextUntil(slice, i, <<>>, <<>>, pred), i)
    /\ Advances(Directive(slice, i), i)
    /\ Advances(Bracketed(slice, i, <<>>), i)

\* parameters() restores the cursor or ends behind the list; in its loop the
\* character put back is read again by parameter(), unless it is whitespace
\* before the closing bracket
ParametersAdvance(i) ==
    /\ NotBefore(Parameters(slice, i), i)
    /\ (AtChar(i) /\ Get(slice, i) # "]") => Advances(Parameter(slice, i), i)
    /\ NotBefore(ParameterValue(slice, i), i)

\* the word loop of a gloss line: the word is read from the character put
\* back, and the whitespace put back after it is behind that character
WordLoopAdvances(i) ==
    /\ (AtChar(i) /\ ~IsWhitespace(Get(slice, i)))
        => Advances(PR(TextUntil(slice, i, <<>>, <<>>, UntilWhitespace).idx - 1,
                       TextUntil(slice, i, <<>>, <<>>, UntilWhitespace).err, <<>>), i)
    /\ Advances(GlossWords(slice, i, <<>>), i)

\* the loops over list items, rows, cells, columns and gloss lines
BlockLoopsAdvance(i) ==
    /\ \A last_indent \in 0..MaxIndent : NotBefore(ListTree(slice, i, last_indent, <<>>), i)
    /\ i < Len(slice) => Advances(ListItems(slice, i, <<>>), i)
    /\ Advances(RowCells(slice, i, RowNew), i)
    /\ AtChar(i) => Advances(TableRows(slice, i, TableBlock), i)
    /\ Advances(TableColumns(slice, i, TableBlock), i)
    /\ AtChar(i) => Advances(GlossLines(slice, i, GlossBlock), i)
    /\ HashRunEnd(slice, i) > i

\* the positions the loops are started from: every position of a block of up
\* to MaxLoopLen characters
MaxLoopLen == 16

CursorPositions == IF Len(slice) <= MaxLoopLen THEN 0..Len(slice) ELSE {}

\* parse() returned a block, None or an error
ParseReturned ==
    /\ parsed.err # NoErr => parsed.val = ParsedNone
    /\ block_idx >= FirstIdx

\* C30: parse() terminates on every finite block: every loop of parse,
\* list_tree, parameters, parameter, directive, text_until and of the row
\* and word loops moves the cursor forward on each iteration or exits, the
\* rewinds included, and parse returns a block, None or an error.
C30_LoopsAdvance ==
    HasParsed =>
        /\ ParseReturned
        /\ \A i \in CursorPositions :
            /\ ReadersAdvance(i)
            /\ ParametersAdvance(i)
            /\ WordLoopAdvances(i)
            /\ BlockLoopsAdvance(i)

\* a gloss with a split line: the word loop put the cursor back twice for
\* its word, and a parameter list was looked for and not found
C30_Witness ==
    /\ HasParsed /\ parsed.err = NoErr
    /\ parsed.val.kind = "Gloss"
    /\ \E l \in 1..Len(parsed.val.gloss) : Len(parsed.val.gloss[l].words) = 1
    /\ block_idx >= Len(slice)
    /\ CursorPositions # {}

====
